---- MODULE Spec2Model ----
(***************************************************************************)
(* Model of the deck tracker's derived statistics, New Game form, route    *)
(* guard and backend-call handlers.                                        *)
(*                                                                         *)
(* The module holds several specifications over one set of variables; each *)
(* specification exercises one part of the program and leaves the          *)
(* variables of the other parts at their initial values.                   *)
(***************************************************************************)
EXTENDS Integers, Sequences, FiniteSets, TLC

(***************************************************************************)
(* Bounds                                                                  *)
(***************************************************************************)
\* largest number of games fed to a win-rate computation
MaxGames == 40
\* players other than the signed-in one
NumOthers == 1
\* decks each player owns when the New Game form is exercised
DecksPerPlayer == 1
\* games rows the New Game form may insert
MaxGameRows == 1
\* decks of the signed-in player when the Statistics page is exercised
MaxDecks == 2
\* participations of the signed-in player when the Statistics page is exercised
MaxParticipations == 2
\* time units per day
DayLen == 2
\* decks and participations of the signed-in player when decks are ranked
RankDecks == 3
RankRows == 3
\* participations of the signed-in player when there are more decks than
\* favourite-deck slots
SlotRows == 4

(***************************************************************************)
(* IEEE-754 binary64 arithmetic, as far as the win-rate expression         *)
(*   Math.round((wins / totalGames) * 100)                                 *)
(* needs it.  A positive double is a record [m, e]: m is the 53-bit        *)
(* significand, most significant bit first (m[1] = 1), e the exponent of   *)
(* m[1]; its value is the sum of m[i] * 2^(e + 1 - i).                     *)
(***************************************************************************)
MantissaBits == 53

\* number of zero bits before the first set bit (at least one bit is set)
LeadingZeros(bits) ==
    (CHOOSE i \in 1..Len(bits) : bits[i] = 1 /\ \A j \in 1..(i - 1) : bits[j] = 0) - 1

\* bits + 1, same length; an all-ones input wraps to all zeros
Increment(bits) ==
    LET zeros == {i \in 1..Len(bits) : bits[i] = 0}
        p     == IF zeros = {} THEN 0 ELSE CHOOSE i \in zeros : \A j \in zeros : j <= i
    IN  [i \in 1..Len(bits) |-> IF i < p THEN bits[i] ELSE IF i = p THEN 1 ELSE 0]

\* round-to-nearest, ties-to-even, of the exact binary expansion `bits'
\* (most significant first, bits[1] of weight 2^e, at least one bit set,
\* at least MantissaBits + 1 bits after the leading one)
RoundToNearestEven(bits, e) ==
    LET lz     == LeadingZeros(bits)
        norm   == SubSeq(bits, lz + 1, Len(bits))
        keep   == SubSeq(norm, 1, MantissaBits)
        guard  == norm[MantissaBits + 1]
        sticky == \E i \in (MantissaBits + 2)..Len(norm) : norm[i] = 1
        up     == guard = 1 /\ (sticky \/ keep[MantissaBits] = 1)
        inc    == Increment(keep)
    IN  IF ~up THEN [m |-> keep, e |-> e - lz]
        ELSE IF inc[1] = 0
             THEN [m |-> <<1>> \o SubSeq(inc, 1, MantissaBits - 1), e |-> e - lz + 1]
             ELSE [m |-> inc, e |-> e - lz]

RECURSIVE NatBits(_, _)
\* the n-bit binary representation of c, most significant bit first
NatBits(c, n) == IF n = 0 THEN <<>> ELSE NatBits(c \div 2, n - 1) \o <<c % 2>>

RECURSIVE BitsValue(_)
BitsValue(bits) ==
    IF bits = <<>> THEN 0
    ELSE 2 * BitsValue(SubSeq(bits, 1, Len(bits) - 1)) + bits[Len(bits)]

\* the long division and the multiplication work on groups of LimbBits bits
LimbBits == 9
LimbBase == 512

RECURSIVE DivBits(_, _, _)
\* n limbs of the binary expansion of r / t (0 <= r < t) after the binary
\* point, followed by one sticky bit telling whether a remainder is left
DivBits(r, t, n) ==
    IF n = 0 THEN << IF r = 0 THEN 0 ELSE 1 >>
    ELSE NatBits((r * LimbBase) \div t, LimbBits)
           \o DivBits((r * LimbBase) % t, t, n - 1)

RECURSIVE NormShift(_, _)
\* least k with w * 2^k >= t
NormShift(w, t) == IF w >= t THEN 0 ELSE 1 + NormShift(2 * w, t)

RECURSIVE Pow2(_)
Pow2(k) == IF k = 0 THEN 1 ELSE 2 * Pow2(k - 1)

\* the double nearest to w / t, for integers 0 < w <= t
FDiv(w, t) ==
    LET k == NormShift(w, t)
        s == w * Pow2(k)
    IN  RoundToNearestEven(<<1>> \o DivBits(s - t, t, 6), -k)

RECURSIVE Mul100Limbs(_, _, _)
\* exact product bits * 100 for a bit string of n limbs, computed from the
\* least significant limb with a running carry (below 100); the result has
\* 7 more bits than the input, most significant first
Mul100Limbs(bits, n, c) ==
    IF n = 0 THEN NatBits(c, 7)
    ELSE LET limb == BitsValue(SubSeq(bits, (n - 1) * LimbBits + 1, n * LimbBits))
             acc  == c + 100 * limb
         IN  Mul100Limbs(bits, n - 1, acc \div LimbBase) \o NatBits(acc % LimbBase, LimbBits)

\* the double nearest to x * 100
FMul100(x) ==
    RoundToNearestEven(Mul100Limbs(<<0>> \o x.m, 6, 0), x.e + 8)

\* Math.round of a positive double below 2^31: floor(x), plus one when the
\* fraction is at least one half (a tie goes towards +infinity)
MathRound(x) ==
    IF x.e < -1 THEN 0
    ELSE IF x.e = -1 THEN 1
    ELSE BitsValue(SubSeq(x.m, 1, x.e + 1)) + x.m[x.e + 2]

\* Math.round((wins / total) * 100) for integers 0 <= wins <= total, total > 0
RoundedPercent(wins, total) ==
    IF wins = 0 THEN 0 ELSE MathRound(FMul100(FDiv(wins, total)))

\* the value of 0 / 0, and of Math.round of it
NaN == -1

\* Math.round((wins / gamesPlayed) * 100) with nothing before it
UnguardedWinRate(wins, gamesPlayed) ==
    IF gamesPlayed = 0 THEN NaN ELSE RoundedPercent(wins, gamesPlayed)

\* the three places that compute a win rate
PlayersWinRate(wins, totalGames) ==
    IF totalGames > 0 THEN RoundedPercent(wins, totalGames) ELSE 0

StatisticsWinRateUnguarded(wins, totalGames) == UnguardedWinRate(wins, totalGames)

StatisticsWinRate(wins, totalGames) ==
    IF totalGames > 0 THEN RoundedPercent(wins, totalGames) ELSE 0

DeckWinRate(wins, totalGames) ==
    IF totalGames > 0 THEN RoundedPercent(wins, totalGames) ELSE 0

WinRateSites == {"player", "overall", "deck"}

WinRateAt(site, wins, totalGames) ==
    CASE site = "player"  -> PlayersWinRate(wins, totalGames)
      [] site = "overall" -> StatisticsWinRate(wins, totalGames)
      [] site = "deck"    -> DeckWinRate(wins, totalGames)

\* 100 * wins / total rounded to the nearest integer, a half rounding up
ExactRoundedPercent(wins, total) == (200 * wins + total) \div (2 * total)

(***************************************************************************)
(* The backend tables and the React component state                        *)
(***************************************************************************)
Null == 0                      \* a null id; row ids are positive
NullText == "<null>"           \* a null string
NoPlayer == [id |-> Null, decks |-> <<>>]   \* a null Player object

CurrentPlayerId == 1           \* players row of the signed-in user
OpponentId == 2                \* players row of another user

VARIABLES
    wrWins,            \* input of a win-rate computation: number of wins
    wrTotal,           \* input of a win-rate computation: number of games
    wrSite,            \* which page computed it, "" before any computation
    wrRate,            \* the computed win rate
    players,           \* table players: sequence of rows [id, username, display_name]
    decks,             \* table decks: sequence of rows [id, player_id, name, properties]
    games,             \* table games: sequence of rows [id, played_at]
    game_participants, \* table game_participants: rows [game_id, player_id, deck_id, won]
    password,          \* the password of the signed-in user, kept by the auth service
    writes,            \* the number of rows written and updated so far
    auth,              \* what useAuth() returns: user, loading
    route,             \* the location and the element its route renders
    app,               \* AppContent state: isNewGameModalOpen, selectedDeckId
    newGameModal,      \* NewGameModal state
    statistics,        \* Statistics page state: loading, error, includeInactive, stats
    earlierStatistics, \* state of the Statistics page of src/pages/Statistics.tsx
    playersPage,       \* Players page state: players, loading, error
    dashboard,         \* Dashboard page state: decks, loading, error
    gamesPage,         \* Games page state: games, loading, error
    profile,           \* Profile page state
    newDeckModal,      \* NewDeckModal state
    editDeckModal,     \* EditDeckModal state and the deck it was opened with
    lastAction         \* the handler that ran in the last step and how it ended

wrVars == <<wrWins, wrTotal, wrSite, wrRate>>
storeVars == <<players, decks, games, game_participants, password, writes>>
navVars == <<auth, route>>
uiVars == <<app, newGameModal>>
deckModals == <<newDeckModal, editDeckModal>>
pageVars == <<statistics, earlierStatistics, playersPage, dashboard, gamesPage, profile>>

vars == <<wrWins, wrTotal, wrSite, wrRate, players, decks, games, game_participants,
          password, writes, auth, route, app, newGameModal, statistics,
          earlierStatistics, playersPage, dashboard, gamesPage, profile, newDeckModal,
          editDeckModal, lastAction>>

\* the pages other than one
exceptStatistics == <<earlierStatistics, playersPage, dashboard, gamesPage, profile>>
exceptEarlierStatistics == <<statistics, playersPage, dashboard, gamesPage, profile>>
exceptPlayersPage == <<statistics, earlierStatistics, dashboard, gamesPage, profile>>
exceptDashboard == <<statistics, earlierStatistics, playersPage, gamesPage, profile>>
exceptGamesPage == <<statistics, earlierStatistics, playersPage, dashboard, profile>>
exceptProfile == <<statistics, earlierStatistics, playersPage, dashboard, gamesPage>>

\* the players rows: usernames are unique and display names start out null
Usernames == <<"ann", "bob", "cid", "dan", "eve">>

PlayersTable(n) ==
    [i \in 1..n |-> [id |-> i, username |-> Usernames[i], display_name |-> NullText]]

WinRateIdle == wrWins = 0 /\ wrTotal = 0 /\ wrSite = "" /\ wrRate = 0

\* one backend call: the table and the verb, the row ids it carries and
\* whether it came back with an error
Call(name, ids, failed) == [call |-> name, ids |-> ids, failed |-> failed]

\* the calls a handler awaits one after the other, in the order of its code
CallsOf(handler) ==
    CASE handler = "fetchData" -> <<"players.select", "players.select">>
      [] handler = "fetchStatistics" ->
            <<"players.select", "decks.select", "game_participants.select">>
      [] handler = "Statistics.fetchStatistics" ->
            <<"players.select", "game_participants.select", "decks.select">>
      [] handler = "fetchPlayers" -> <<"players.select">>
      [] handler = "fetchDecks" -> <<"players.select", "decks.select">>
      [] handler = "fetchGames" -> <<"players.select", "games.select">>
      [] handler = "fetchProfile" -> <<"players.select">>
      [] handler = "handleUpdateDisplayName" -> <<"players.update">>
      [] handler = "handleUpdatePassword" -> <<"auth.updateUser">>
      [] handler = "handleSubmit" -> <<"games.insert", "game_participants.insert">>
      [] handler = "NewDeckModal.handleSubmit" -> <<"players.select", "decks.insert">>
      [] handler = "EditDeckModal.handleSubmit" -> <<"decks.update">>
      [] OTHER -> <<>>

\* the error variables of a handler, in the order of CallsOf
ErrorsIn(handler) ==
    CASE handler = "fetchData" -> <<"currentPlayerError", "playersError">>
      [] handler = "fetchStatistics" -> <<"playerError", "decksError", "gamesError">>
      [] handler = "Statistics.fetchStatistics" ->
            <<"playerError", "gamesError", "decksError">>
      [] handler = "fetchPlayers" -> <<"playersError">>
      [] handler = "fetchDecks" -> <<"playerError", "decksError">>
      [] handler = "fetchGames" -> <<"playerError", "gamesError">>
      [] handler = "fetchProfile" -> <<"playerError">>
      [] handler = "handleUpdateDisplayName" -> <<"updateError">>
      [] handler = "handleUpdatePassword" -> <<"updateError">>
      [] handler = "handleSubmit" -> <<"gameError", "participantsError">>
      [] handler = "NewDeckModal.handleSubmit" -> <<"playerError", "deckError">>
      [] handler = "EditDeckModal.handleSubmit" -> <<"updateError">>
      [] OTHER -> <<>>

\* the calls a run of the handler issued: none when it returned or threw before
\* its first call, else all up to the first one that failed
Issued(handler, outcome) ==
    LET plan == CallsOf(handler)
        errors == ErrorsIn(handler)
        failing == {k \in 1..Len(errors) : errors[k] = outcome}
        last == IF outcome \in {"", "rejected", "disabled"} THEN 0
                ELSE IF outcome = "typeError" THEN 2
                ELSE IF failing = {} THEN Len(plan)
                ELSE CHOOSE k \in failing : TRUE
    IN  [k \in 1..last |-> Call(plan[k], {}, k \in failing)]

\* the handler that ran last, how its calls ended, whether it reloaded and the
\* backend calls it issued
Ended(handler, outcome, reload) ==
    [handler |-> handler, outcome |-> outcome, reload |-> reload,
     calls |-> Issued(handler, outcome)]

\* the same with the row ids that the calls carried
Carrying(ended, ids) ==
    [ended EXCEPT !.calls = [k \in 1..Len(ended.calls) |->
                                [ended.calls[k] EXCEPT !.ids = ids[k]]]]

\* the same with the calls of a fan-out issued after the sequential ones
FannedOut(ended, fanOut) == [ended EXCEPT !.calls = ended.calls \o fanOut]

Idle == Ended("", "", FALSE)

\* useState initial values of AppContent and NewGameModal
AppInitial ==
    [isMenuOpen |-> FALSE, isNewGameModalOpen |-> FALSE, isNewDeckModalOpen |-> FALSE,
     selectedDeckId |-> Null]

NewGameModalInitial ==
    [players |-> <<>>, currentPlayer |-> NoPlayer, participants |-> <<>>,
     loading |-> TRUE, error |-> NullText, submitting |-> FALSE]

\* a null deck summary, a null number and a null player object
NullDeck == [name |-> NullText, gamesPlayed |-> 0, winRate |-> 0]
NullNumber == -999999
NullWinner == [username |-> NullText, display_name |-> NullText]

\* useState initial values of the Statistics page
StatisticsInitial ==
    [stats |-> [totalGames |-> 0, totalDecks |-> 0, winRate |-> 0, totalPlayers |-> 0,
                mostPlayedDeck |-> NullDeck, leastPlayedDeck |-> NullDeck,
                recentGames |-> <<>>, inactiveDecksSummary |-> <<>>],
     loading |-> TRUE, error |-> NullText, includeInactive |-> FALSE]

EarlierStatisticsInitial ==
    [stats |-> [totalGames |-> 0, totalDecks |-> 0, winRate |-> 0, totalPlayers |-> 0,
                mostPlayedDeck |-> NullDeck, leastPlayedDeck |-> NullDeck,
                recentGames |-> <<>>],
     loading |-> TRUE, error |-> NullText]

PlayersPageInitial == [players |-> <<>>, loading |-> TRUE, error |-> NullText]

DashboardInitial == [decks |-> <<>>, loading |-> TRUE, error |-> NullText]

GamesPageInitial == [games |-> <<>>, loading |-> TRUE, error |-> NullText]

ProfileInitial ==
    [displayName |-> "", currentPassword |-> "", newPassword |-> "", confirmPassword |-> "",
     loading |-> TRUE, error |-> NullText, success |-> NullText]

PagesInitial ==
    /\ statistics = StatisticsInitial
    /\ earlierStatistics = EarlierStatisticsInitial
    /\ playersPage = PlayersPageInitial
    /\ dashboard = DashboardInitial
    /\ gamesPage = GamesPageInitial
    /\ profile = ProfileInitial

\* a ColorIdentity with no colour chosen
NoColors ==
    [white |-> FALSE, blue |-> FALSE, black |-> FALSE, red |-> FALSE, green |-> FALSE,
     colorless |-> FALSE]

\* formats[0]
DefaultFormat == "Commander"

\* the properties column of a decks row as EditDeckModal writes it
Properties(format, commander, colorIdentity, inactive) ==
    [isNull |-> FALSE, format |-> format, commander |-> commander,
     colorIdentity |-> colorIdentity, inactive |-> inactive]

\* a null properties column
NullProperties ==
    [isNull |-> TRUE, format |-> NullText, commander |-> NullText,
     colorIdentity |-> NoColors, inactive |-> FALSE]

\* a decks row whose attributes are kept in properties
DeckRow(id, playerId, name, inactive) ==
    [id |-> id, player_id |-> playerId, name |-> name,
     format |-> NullText, commander |-> NullText, is_white |-> FALSE, is_blue |-> FALSE,
     is_black |-> FALSE, is_red |-> FALSE, is_green |-> FALSE, is_colorless |-> FALSE,
     properties |-> Properties(DefaultFormat, NullText, [NoColors EXCEPT !.white = TRUE],
                               inactive)]

\* useState initial values of NewDeckModal
NewDeckModalInitial ==
    [name |-> "", format |-> DefaultFormat, commander |-> "", colors |-> NoColors,
     error |-> NullText, loading |-> FALSE]

\* no EditDeckModal is mounted
EditDeckModalClosed ==
    [isOpen |-> FALSE, deckId |-> Null, name |-> "", format |-> "", commander |-> "",
     colors |-> NoColors, inactive |-> FALSE, error |-> NullText, loading |-> FALSE]

DeckModalsInitial == newDeckModal = NewDeckModalInitial /\ editDeckModal = EditDeckModalClosed

\* users are numbered from 1; the signed-in user of the tables is user 1
NoUser == 0
CurrentUser == 1
SignedIn == [user |-> CurrentUser, loading |-> FALSE]

PrivateRouteUserFirst(useAuth) ==
    IF useAuth.user = NoUser THEN "Navigate to /login"
    ELSE IF useAuth.loading THEN "Checking authentication..."
    ELSE "children"

\* PrivateRoute: what the route of a protected page renders
PrivateRoute(useAuth) ==
    IF useAuth.loading THEN "Checking authentication..."
    ELSE IF useAuth.user = NoUser THEN "Navigate to /login"
    ELSE "children"

ProtectedPaths == {"/", "/decks", "/games", "/players", "/statistics", "/profile"}
LoginPath == "/login"

\* the element the Routes render at a path
RouteElement(path, useAuth) ==
    IF path \in ProtectedPaths THEN PrivateRoute(useAuth) ELSE "Login"

RouteAt(path, useAuth) == [path |-> path, element |-> RouteElement(path, useAuth)]

\* the paths whose route renders a page
PathsOf(page) ==
    CASE page = "dashboard" -> {"/", "/decks"}
      [] page = "games" -> {"/games"}
      [] page = "players" -> {"/players"}
      [] page \in {"statistics", "earlierStatistics"} -> {"/statistics"}
      [] page = "profile" -> {"/profile"}

\* a signed-in user on the page of a path
NavAt(path) == auth = SignedIn /\ route = RouteAt(path, SignedIn)

InitialPassword == "secret"

UiAt(path) ==
    /\ app = AppInitial /\ newGameModal = NewGameModalInitial
    /\ PagesInitial /\ DeckModalsInitial /\ NavAt(path)

UiInitial == UiAt("/")

StoreEmpty ==
    /\ players = <<>> /\ decks = <<>> /\ games = <<>> /\ game_participants = <<>>
    /\ password = InitialPassword /\ writes = 0

(***************************************************************************)
(* Specification SpecWinRate: the win-rate expression on every input       *)
(***************************************************************************)
InitWinRate ==
    /\ wrTotal \in 0..MaxGames
    /\ wrWins \in 0..wrTotal
    /\ wrSite = ""
    /\ wrRate = 0
    /\ StoreEmpty /\ UiInitial /\ lastAction = Idle

ComputeWinRate(site) ==
    /\ wrSite = ""
    /\ wrSite' = site
    /\ wrRate' = WinRateAt(site, wrWins, wrTotal)
    /\ UNCHANGED <<wrWins, wrTotal, storeVars, uiVars, pageVars, navVars, deckModals,
                   lastAction>>

NextWinRate == \E site \in WinRateSites : ComputeWinRate(site)

SpecWinRate == InitWinRate /\ [][NextWinRate]_vars

\* C1: every win-rate computation returns 0 for zero games and otherwise
\* 100 * wins / total rounded to the nearest integer, a half rounding up
WinRateIsRoundedPercentage ==
    wrSite # "" =>
        wrRate = IF wrTotal = 0 THEN 0 ELSE ExactRoundedPercent(wrWins, wrTotal)

(***************************************************************************)
(* NewGameModal                                                            *)
(***************************************************************************)
\* the time the page was loaded, in the time unit of played_at
Now == 1000

\* the error object a failing table call returns and the handler throws: a
\* plain object with a message, not an Error instance
BackendErrors ==
    {[instanceOfError |-> FALSE, message |-> "backend failure"]}

NoError == [instanceOfError |-> FALSE, message |-> ""]

\* the errors a handler run with the given outcome can have caught
ErrorsOf(outcome) == IF outcome = "ok" THEN {NoError} ELSE BackendErrors

\* err instanceof Error ? err.message : 'An error occurred'
ErrorText(err) ==
    IF err.instanceOfError THEN err.message ELSE "An error occurred"

WinnerError ==
    [instanceOfError |-> TRUE,
     message |-> "Exactly one player must be marked as the winner"]

\* the nested select decks (id, name) of a players row
DecksOf(playerId) ==
    LET own == SelectSeq(decks, LAMBDA d : d.player_id = playerId)
    IN  [i \in 1..Len(own) |-> own[i].id]

PlayerRow(playerId) == [id |-> playerId, decks |-> DecksOf(playerId)]

\* the players rows other than the current user's: .neq('user_id', user?.id)
OtherPlayers ==
    LET others == SelectSeq(players, LAMBDA row : row.id # CurrentPlayerId)
    IN  [i \in 1..Len(others) |-> PlayerRow(others[i].id)]

\* fetchData: the outcome names the first failing call, or "ok"
FetchDataOutcomes == {"currentPlayerError", "playersError", "ok"}

fetchDataKeepsParticipants(modal, selectedDeckId, outcome, err) ==
    LET currentPlayerData == PlayerRow(CurrentPlayerId)
        initialDeckId == IF selectedDeckId # Null THEN selectedDeckId
                         ELSE currentPlayerData.decks[1]
        withCurrent ==
            IF Len(currentPlayerData.decks) > 0 /\ modal.participants = <<>>
            THEN [modal EXCEPT !.currentPlayer = currentPlayerData,
                               !.participants = << [playerId |-> currentPlayerData.id,
                                                    deckId |-> initialDeckId,
                                                    won |-> FALSE] >>]
            ELSE [modal EXCEPT !.currentPlayer = currentPlayerData]
    IN  CASE outcome = "currentPlayerError" ->
               [modal EXCEPT !.error = ErrorText(err), !.loading = FALSE]
          [] outcome = "playersError" ->
               [withCurrent EXCEPT !.error = ErrorText(err), !.loading = FALSE]
          [] outcome = "ok" ->
               [withCurrent EXCEPT !.error = NullText, !.loading = FALSE,
                                   !.players = OtherPlayers]

fetchData(modal, selectedDeckId, outcome, err) ==
    LET currentPlayerData == PlayerRow(CurrentPlayerId)
        initialDeckId == IF selectedDeckId # Null THEN selectedDeckId
                         ELSE currentPlayerData.decks[1]
        withCurrent ==
            IF Len(currentPlayerData.decks) > 0
            THEN [modal EXCEPT !.currentPlayer = currentPlayerData,
                               !.participants = << [playerId |-> currentPlayerData.id,
                                                    deckId |-> initialDeckId,
                                                    won |-> FALSE] >>]
            ELSE [modal EXCEPT !.currentPlayer = currentPlayerData]
    IN  CASE outcome = "currentPlayerError" ->
               [modal EXCEPT !.error = ErrorText(err), !.loading = FALSE]
          [] outcome = "playersError" ->
               [withCurrent EXCEPT !.error = ErrorText(err), !.loading = FALSE]
          [] outcome = "ok" ->
               [withCurrent EXCEPT !.error = NullText, !.loading = FALSE,
                                   !.players = OtherPlayers]

\* Dashboard's Add Game button: handleNewGame, then the isOpen effect runs
\* fetchData
handleNewGame(deckId, outcome, err) ==
    /\ ~app.isNewGameModalOpen
    /\ Len(games) < MaxGameRows          \* bound: stop once the rows are used up
    /\ app' = [app EXCEPT !.isNewGameModalOpen = TRUE, !.selectedDeckId = deckId]
    /\ newGameModal' = fetchData(newGameModal, deckId, outcome, err)
    /\ lastAction' = Ended("fetchData", outcome, FALSE)
    /\ UNCHANGED <<wrVars, navVars, deckModals, pageVars, storeVars>>

FormRendered == app.isNewGameModalOpen /\ ~newGameModal.loading

IsParticipant(playerId) ==
    \E i \in 1..Len(newGameModal.participants) :
        newGameModal.participants[i].playerId = playerId

\* the Player object a participant row is rendered with, NoPlayer when not found
RenderedPlayer(playerId) ==
    IF playerId = newGameModal.currentPlayer.id
    THEN newGameModal.currentPlayer
    ELSE IF \E i \in 1..Len(newGameModal.players) : newGameModal.players[i].id = playerId
         THEN newGameModal.players[CHOOSE i \in 1..Len(newGameModal.players) :
                                       newGameModal.players[i].id = playerId]
         ELSE NoPlayer

SeqRange(seq) == {seq[i] : i \in 1..Len(seq)}

handleAddPlayerAgain(playerId, deckId) ==
    /\ FormRendered
    /\ \E i \in 1..Len(newGameModal.players) :
          /\ newGameModal.players[i].id = playerId
          /\ deckId \in SeqRange(newGameModal.players[i].decks)
    /\ Len(newGameModal.participants) <= Len(players)
    /\ newGameModal' =
          [newGameModal EXCEPT !.participants =
              Append(@, [playerId |-> playerId, deckId |-> deckId, won |-> FALSE])]
    /\ lastAction' = Idle
    /\ UNCHANGED <<wrVars, navVars, deckModals, pageVars, storeVars, app>>

handleAddPlayer(playerId, deckId) ==
    /\ FormRendered
    /\ \E i \in 1..Len(newGameModal.players) :
          /\ newGameModal.players[i].id = playerId
          /\ deckId \in SeqRange(newGameModal.players[i].decks)
    /\ ~IsParticipant(playerId)                       \* the button is not disabled
    /\ newGameModal' =
          IF ~IsParticipant(playerId)
          THEN [newGameModal EXCEPT !.participants =
                   Append(@, [playerId |-> playerId, deckId |-> deckId, won |-> FALSE])]
          ELSE newGameModal
    /\ lastAction' = Idle
    /\ UNCHANGED <<wrVars, navVars, deckModals, pageVars, storeVars, app>>

handleRemovePlayer(playerId) ==
    /\ FormRendered
    /\ IsParticipant(playerId)
    /\ RenderedPlayer(playerId) # NoPlayer
    /\ playerId # newGameModal.currentPlayer.id
    /\ newGameModal' = [newGameModal EXCEPT !.participants =
                           SelectSeq(@, LAMBDA p : p.playerId # playerId)]
    /\ lastAction' = Idle
    /\ UNCHANGED <<wrVars, navVars, deckModals, pageVars, storeVars, app>>

handleWinStateChangeOfOne(playerId, won) ==
    /\ FormRendered
    /\ IsParticipant(playerId)
    /\ RenderedPlayer(playerId) # NoPlayer
    /\ newGameModal' = [newGameModal EXCEPT !.participants =
          [i \in 1..Len(@) |-> IF @[i].playerId = playerId
                               THEN [@[i] EXCEPT !.won = won]
                               ELSE @[i]]]
    /\ lastAction' = Idle
    /\ UNCHANGED <<wrVars, navVars, deckModals, pageVars, storeVars, app>>

handleWinStateChange(playerId, won) ==
    /\ FormRendered
    /\ IsParticipant(playerId)
    /\ RenderedPlayer(playerId) # NoPlayer
    /\ newGameModal' = [newGameModal EXCEPT !.participants =
          [i \in 1..Len(@) |-> IF @[i].playerId = playerId
                               THEN [@[i] EXCEPT !.won = won]
                               ELSE [@[i] EXCEPT !.won = FALSE]]]
    /\ lastAction' = Idle
    /\ UNCHANGED <<wrVars, navVars, deckModals, pageVars, storeVars, app>>

handleDeckChangeToAnyDeck(playerId, deckId) ==
    /\ FormRendered
    /\ IsParticipant(playerId)
    /\ RenderedPlayer(playerId) # NoPlayer
    /\ newGameModal' = [newGameModal EXCEPT !.participants =
          [i \in 1..Len(@) |-> IF @[i].playerId = playerId
                               THEN [@[i] EXCEPT !.deckId = deckId]
                               ELSE @[i]]]
    /\ lastAction' = Idle
    /\ UNCHANGED <<wrVars, navVars, deckModals, pageVars, storeVars, app>>

handleDeckChange(playerId, deckId) ==
    /\ FormRendered
    /\ IsParticipant(playerId)
    /\ RenderedPlayer(playerId) # NoPlayer
    /\ deckId \in SeqRange(RenderedPlayer(playerId).decks)
    /\ newGameModal' = [newGameModal EXCEPT !.participants =
          [i \in 1..Len(@) |-> IF @[i].playerId = playerId
                               THEN [@[i] EXCEPT !.deckId = deckId]
                               ELSE @[i]]]
    /\ lastAction' = Idle
    /\ UNCHANGED <<wrVars, navVars, deckModals, pageVars, storeVars, app>>

\* Cancel and the X button
onClose ==
    /\ app.isNewGameModalOpen
    /\ app' = [app EXCEPT !.isNewGameModalOpen = FALSE]
    /\ lastAction' = Idle
    /\ UNCHANGED <<wrVars, navVars, deckModals, pageVars, storeVars, newGameModal>>

hasWinner == \E i \in 1..Len(newGameModal.participants) : newGameModal.participants[i].won

\* the button without its participant-count test
CreateGameDisabledNoCount ==
    \/ newGameModal.loading
    \/ newGameModal.submitting
    \/ ~hasWinner

\* the disabled attribute of the Create Game button
CreateGameDisabled ==
    \/ newGameModal.loading
    \/ newGameModal.submitting
    \/ ~hasWinner
    \/ Len(newGameModal.participants) < 2

winners == SelectSeq(newGameModal.participants, LAMBDA p : p.won)

\* window.location.reload(): every component is mounted afresh
Reloaded ==
    /\ app' = AppInitial
    /\ newGameModal' = NewGameModalInitial
    /\ statistics' = StatisticsInitial
    /\ earlierStatistics' = EarlierStatisticsInitial
    /\ playersPage' = PlayersPageInitial
    /\ dashboard' = DashboardInitial
    /\ gamesPage' = GamesPageInitial
    /\ profile' = ProfileInitial
    /\ newDeckModal' = NewDeckModalInitial
    /\ editDeckModal' = EditDeckModalClosed

InsertedGame == [id |-> Len(games) + 1, played_at |-> Now, location |-> NullText]

InsertedParticipantsOfGameBefore ==
    [i \in 1..Len(newGameModal.participants) |->
        [game_id   |-> Len(games),
         player_id |-> newGameModal.participants[i].playerId,
         deck_id   |-> newGameModal.participants[i].deckId,
         won       |-> newGameModal.participants[i].won,
         created_at |-> Now]]

InsertedParticipants ==
    [i \in 1..Len(newGameModal.participants) |->
        [game_id   |-> InsertedGame.id,
         player_id |-> newGameModal.participants[i].playerId,
         deck_id   |-> newGameModal.participants[i].deckId,
         won       |-> newGameModal.participants[i].won,
         created_at |-> Now]]

\* handleSubmit: the outcome names the first failing call, or "ok"
SubmitOutcomes == {"gameError", "participantsError", "ok"}

handleSubmit(outcome, err) ==
    IF Len(winners) # 1
    THEN /\ newGameModal' = [newGameModal EXCEPT
                                !.error = ErrorText(WinnerError), !.submitting = FALSE]
         /\ lastAction' = Ended("handleSubmit", "rejected", FALSE)
         /\ UNCHANGED <<wrVars, navVars, deckModals, pageVars, storeVars, app>>
    ELSE /\ Len(games) < MaxGameRows
         /\ CASE outcome = "gameError" ->
                   /\ newGameModal' = [newGameModal EXCEPT
                                          !.error = ErrorText(err), !.submitting = FALSE]
                   /\ UNCHANGED <<storeVars, app, pageVars, deckModals>>
              [] outcome = "participantsError" ->
                   /\ games' = Append(games, InsertedGame)
                   /\ writes' = writes + 1
                   /\ newGameModal' = [newGameModal EXCEPT
                                          !.error = ErrorText(err), !.submitting = FALSE]
                   /\ UNCHANGED <<players, decks, game_participants, password, app,
                                  pageVars, deckModals>>
              [] outcome = "ok" ->
                   /\ games' = Append(games, InsertedGame)
                   /\ game_participants' = game_participants \o InsertedParticipants
                   /\ writes' = writes + 2
                   /\ Reloaded
                   /\ UNCHANGED <<players, decks, password>>
         /\ lastAction' =
               Carrying(Ended("handleSubmit", outcome, outcome = "ok"),
                        <<{}, {InsertedParticipants[i].game_id :
                                  i \in 1..Len(InsertedParticipants)}>>)
         /\ UNCHANGED <<wrVars, navVars>>

\* a click on Create Game: nothing happens while the button is disabled
ClickCreateGame(outcome, err) ==
    /\ app.isNewGameModalOpen
    /\ IF CreateGameDisabled
       THEN /\ lastAction' = Ended("handleSubmit", "disabled", FALSE)
            /\ UNCHANGED <<wrVars, navVars, deckModals, pageVars, storeVars, uiVars>>
       ELSE handleSubmit(outcome, err)

(***************************************************************************)
(* Specification SpecGame: the New Game form against the store             *)
(***************************************************************************)
DeckId(playerId, k) == (playerId - 1) * DecksPerPlayer + k

InitialDecks ==
    [n \in 1..((NumOthers + 1) * DecksPerPlayer) |->
        DeckRow(n, ((n - 1) \div DecksPerPlayer) + 1, "Alpha", FALSE)]

InitGame ==
    /\ WinRateIdle
    /\ players = PlayersTable(NumOthers + 1)
    /\ decks = InitialDecks
    /\ games = <<>>
    /\ game_participants = <<>>
    /\ password = InitialPassword /\ writes = 0
    /\ UiInitial
    /\ lastAction = Idle

AllDeckIds == {decks[i].id : i \in 1..Len(decks)}
PlayerIds == {players[i].id : i \in 1..Len(players)}

NextGame ==
    \/ \E deckId \in SeqRange(DecksOf(CurrentPlayerId)) \cup {Null},
          outcome \in FetchDataOutcomes :
          \E err \in ErrorsOf(outcome) : handleNewGame(deckId, outcome, err)
    \/ \E playerId \in PlayerIds, deckId \in AllDeckIds : handleAddPlayer(playerId, deckId)
    \/ \E playerId \in PlayerIds : handleRemovePlayer(playerId)
    \/ \E playerId \in PlayerIds : handleWinStateChange(playerId, TRUE)
    \/ \E playerId \in PlayerIds, deckId \in AllDeckIds : handleDeckChange(playerId, deckId)
    \/ onClose
    \/ \E outcome \in SubmitOutcomes :
          \E err \in ErrorsOf(outcome) : ClickCreateGame(outcome, err)

SpecGame == InitGame /\ [][NextGame]_vars

\* C2 -------------------------------------------------------------------
CreateGameClicked ==
    \E outcome \in SubmitOutcomes : \E err \in ErrorsOf(outcome) : ClickCreateGame(outcome, err)

\* exactly one participant is marked as winner and at least two exist
SubmissionValid == Len(winners) = 1 /\ Len(newGameModal.participants) >= 2

NoRowWritten == games' = games /\ game_participants' = game_participants

\* C2 as stated: a submission of a form that is not valid writes no games
\* row and no game_participants row, and an error is shown
InvalidSubmissionRejectedWithError ==
    [][CreateGameClicked /\ ~SubmissionValid
         => NoRowWritten /\ newGameModal'.error # NullText]_vars

\* C2 amended: a click on Create Game with a form that is not valid writes no
\* games row and no game_participants row; the button is disabled and the
\* click leaves the form, its error included, as it was
InvalidSubmissionWritesNothing ==
    [][CreateGameClicked /\ ~SubmissionValid
         => NoRowWritten /\ UNCHANGED uiVars /\ lastAction'.outcome = "disabled"]_vars

\* a click happened on a form whose only participant is marked as winner
SingleParticipantClick ==
    /\ lastAction = Ended("handleSubmit", "disabled", FALSE)
    /\ Len(newGameModal.participants) = 1
    /\ Len(winners) = 1
    /\ ~newGameModal.loading
    /\ newGameModal.error = NullText

\* C3 -------------------------------------------------------------------
ParticipantsOfGame(gameId) ==
    SelectSeq(game_participants, LAMBDA r : r.game_id = gameId)

\* C3: every game row in the store has at least two participant rows and
\* exactly one participant row with won = true
EveryGameHasOneWinner ==
    \A g \in 1..Len(games) :
        LET rows == ParticipantsOfGame(games[g].id)
        IN  /\ Len(rows) >= 2
            /\ Len(SelectSeq(rows, LAMBDA r : r.won)) = 1

(***************************************************************************)
(* Statistics page (fetchStatistics)                                       *)
(***************************************************************************)
\* a deck is reported when differenceInDays(...) > 30
InactiveDays == 30
\* recentGames is cut with slice(0, 5)
RecentGamesLimit == 5

Undefined == "<undefined>"

PlayerById(playerId) == players[CHOOSE i \in 1..Len(players) : players[i].id = playerId]

\* date-fns differenceInDays: the number of full days from dateRight to
\* dateLeft, truncated towards zero
differenceInDays(dateLeft, dateRight) ==
    IF dateLeft >= dateRight
    THEN (dateLeft - dateRight) \div DayLen
    ELSE -((dateRight - dateLeft) \div DayLen)

\* a sort that puts the later of two elements of equal key first
TiesReversedSort(seq, keys) ==
    LET n == Len(seq)
        rank(i) == 1 + Cardinality({j \in 1..n :
                        \/ keys[j] < keys[i]
                        \/ keys[j] = keys[i] /\ j > i})
    IN  [k \in 1..n |-> seq[CHOOSE i \in 1..n : rank(i) = k]]

\* Array.prototype.sort with a comparator (a, b) => key(a) - key(b): a stable
\* sort by ascending key; keys[i] is the key of seq[i]
StableSort(seq, keys) ==
    LET n == Len(seq)
        rank(i) == 1 + Cardinality({j \in 1..n :
                        \/ keys[j] < keys[i]
                        \/ keys[j] = keys[i] /\ j < i})
    IN  [k \in 1..n |-> seq[CHOOSE i \in 1..n : rank(i) = k]]

\* the permutations of 1..n
Orderings(n) ==
    {f \in [1..n -> 1..n] : \A i, j \in 1..n : f[i] = f[j] => i = j}

\* select('id') of the players row: the object has no username
PlayerIdOnly == [id |-> CurrentPlayerId, username |-> Undefined]

DeckById(deckId) == decks[CHOOSE i \in 1..Len(decks) : decks[i].id = deckId]
GameById(gameId) == games[CHOOSE i \in 1..Len(games) : games[i].id = gameId]

\* the nested select game_participants (player (username, display_name), won)
GameParticipantsOf(gameId) ==
    LET rows == SelectSeq(game_participants, LAMBDA r : r.game_id = gameId)
    IN  [i \in 1..Len(rows) |->
            [player |-> [username |-> PlayerById(rows[i].player_id).username,
                         display_name |-> PlayerById(rows[i].player_id).display_name],
             won    |-> rows[i].won]]

\* game_participants rows of a player, joined with their deck and game
Participations(playerId) ==
    LET rows == SelectSeq(game_participants, LAMBDA r : r.player_id = playerId)
    IN  [i \in 1..Len(rows) |->
            [won  |-> rows[i].won,
             deck |-> DeckById(rows[i].deck_id),
             game |-> [id |-> rows[i].game_id,
                       played_at |-> GameById(rows[i].game_id).played_at,
                       game_participants |-> GameParticipantsOf(rows[i].game_id)]]]

filteredDecks(includeInactive) ==
    LET own == SelectSeq(decks, LAMBDA d : d.player_id = PlayerIdOnly.id)
    IN  IF includeInactive THEN own ELSE SelectSeq(own, LAMBDA d : ~d.properties.inactive)

filteredParticipationsAll(includeInactive) == Participations(PlayerIdOnly.id)

filteredParticipations(includeInactive) ==
    LET participations == Participations(PlayerIdOnly.id)
    IN  IF includeInactive THEN participations
        ELSE SelectSeq(participations, LAMBDA p : ~p.deck.properties.inactive)

\* deckStats is an object keyed by deck id; deck ids are uuid strings, none
\* of them an array index, so its values come in insertion order
InitialDeckStats(includeInactive) ==
    LET fd == filteredDecks(includeInactive)
    IN  [i \in 1..Len(fd) |->
            [id |-> fd[i].id, name |-> fd[i].name,
             gamesPlayed |-> 0, wins |-> 0, lastPlayed |-> Null]]

RECURSIVE UpdateDeckStats(_, _)
\* the forEach over filteredParticipations; played_at values are ISO
\* timestamps of one format, compared as strings, that is, by time
UpdateDeckStats(deckStats, parts) ==
    IF parts = <<>> THEN deckStats
    ELSE LET game == Head(parts)
             playedAt == game.game.played_at
             updated ==
                [k \in 1..Len(deckStats) |->
                    IF deckStats[k].id = game.deck.id
                    THEN [deckStats[k] EXCEPT
                            !.gamesPlayed = @ + 1,
                            !.wins = IF game.won THEN @ + 1 ELSE @,
                            !.lastPlayed = IF @ = Null \/ playedAt > @ THEN playedAt ELSE @]
                    ELSE deckStats[k]]
         IN  UpdateDeckStats(updated, Tail(parts))

deckStatsOf(includeInactive) ==
    UpdateDeckStats(InitialDeckStats(includeInactive), filteredParticipations(includeInactive))

DeckSummary(deck) ==
    [name |-> deck.name, gamesPlayed |-> deck.gamesPlayed,
     winRate |-> StatisticsWinRate(deck.wins, deck.gamesPlayed)]

FirstOrNull(seq, null) == IF Len(seq) > 0 THEN seq[1] ELSE null

\* (a, b) => b.gamesPlayed - a.gamesPlayed
MostPlayedOrder(deckStats) == [i \in 1..Len(deckStats) |-> -deckStats[i].gamesPlayed]

\* .sort(...).map(...)[0] || null: the summary of the first sorted deck
mostPlayedDeck(deckStats) ==
    LET sorted == StableSort(deckStats, MostPlayedOrder(deckStats))
    IN  FirstOrNull([i \in 1..(IF Len(sorted) > 0 THEN 1 ELSE 0) |-> DeckSummary(sorted[i])],
                    NullDeck)

LeastPlayedOrderDescending(deckStats) ==
    [i \in 1..Len(deckStats) |-> -deckStats[i].gamesPlayed]

\* (a, b) => a.gamesPlayed - b.gamesPlayed
LeastPlayedOrder(deckStats) == [i \in 1..Len(deckStats) |-> deckStats[i].gamesPlayed]

leastPlayedDeck(deckStats) ==
    LET sorted == StableSort(deckStats, LeastPlayedOrder(deckStats))
    IN  FirstOrNull([i \in 1..(IF Len(sorted) > 0 THEN 1 ELSE 0) |-> DeckSummary(sorted[i])],
                    NullDeck)

InactiveEntry(deck) ==
    [name |-> deck.name, lastPlayed |-> deck.lastPlayed,
     daysSinceLastPlayed |-> IF deck.lastPlayed # Null
                             THEN differenceInDays(Now, deck.lastPlayed)
                             ELSE NullNumber]

IsReportedInactive(entry) ==
    entry.daysSinceLastPlayed = NullNumber \/ entry.daysSinceLastPlayed > InactiveDays

\* (a, b) => new Date(b.lastPlayed).getTime() - new Date(a.lastPlayed).getTime()
LastPlayedOrder(entries) == [i \in 1..Len(entries) |-> -entries[i].lastPlayed]

\* the comparator answers -1 for two never-played decks in either order, so
\* their order is left to the engine: `order' is the permutation it picks.
\* They come first; the played decks follow, latest first.
inactiveDecksSummary(deckStats, order) ==
    LET listed == SelectSeq([i \in 1..Len(deckStats) |-> InactiveEntry(deckStats[i])],
                            IsReportedInactive)
        never  == SelectSeq(listed, LAMBDA e : e.lastPlayed = Null)
        played == SelectSeq(listed, LAMBDA e : e.lastPlayed # Null)
    IN  [i \in 1..Len(never) |-> never[order[i]]] \o StableSort(played, LastPlayedOrder(played))

NeverPlayedCount(includeInactive) ==
    Len(SelectSeq(deckStatsOf(includeInactive), LAMBDA d : d.lastPlayed = Null))

\* deck.properties.inactive is read of every fetched deck when inactive decks
\* are filtered out; reading it of null properties throws a TypeError
PropertiesTypeError ==
    [instanceOfError |-> TRUE,
     message |-> "Cannot read properties of null (reading 'inactive')"]

FilterThrows(includeInactive) ==
    /\ ~includeInactive
    /\ \E i \in 1..Len(decks) :
          decks[i].player_id = PlayerIdOnly.id /\ decks[i].properties.isNull

\* how a run with the given outcome of the calls ends: the filter runs after
\* the decks are fetched and before the participations are
FetchStatisticsEnd(includeInactive, outcome) ==
    IF outcome \in {"gamesError", "ok"} /\ FilterThrows(includeInactive)
    THEN "typeError" ELSE outcome

\* the orders the engine may give the never-played decks; a fetch that fails
\* does not reach the sort
SortOrders(outcome, includeInactive) ==
    IF FetchStatisticsEnd(includeInactive, outcome) = "ok"
    THEN Orderings(NeverPlayedCount(includeInactive)) ELSE {<<>>}

\* player.username is undefined, so the filter keeps every participant
uniquePlayers(parts) ==
    UNION {{parts[i].game.game_participants[j].player.username :
               j \in {k \in 1..Len(parts[i].game.game_participants) :
                        parts[i].game.game_participants[k].player.username
                            # PlayerIdOnly.username}} :
           i \in 1..Len(parts)}

WinnerOf(gps) ==
    IF \E j \in 1..Len(gps) : gps[j].won
    THEN gps[CHOOSE j \in 1..Len(gps) : gps[j].won /\ \A k \in 1..(j - 1) : ~gps[k].won].player
    ELSE NullWinner

RecentOrderOldestFirst(mapped) == [i \in 1..Len(mapped) |-> mapped[i].played_at]

\* (a, b) => new Date(b.played_at).getTime() - new Date(a.played_at).getTime()
RecentOrder(mapped) == [i \in 1..Len(mapped) |-> -mapped[i].played_at]

recentGames(parts) ==
    LET mapped == [i \in 1..Len(parts) |->
                      [id |-> parts[i].game.id, played_at |-> parts[i].game.played_at,
                       winner |-> WinnerOf(parts[i].game.game_participants)]]
        sorted == StableSort(mapped, RecentOrder(mapped))
    IN  SubSeq(sorted, 1, IF Len(sorted) < RecentGamesLimit THEN Len(sorted) ELSE RecentGamesLimit)

ComputedStats(includeInactive, order) ==
    LET parts      == filteredParticipations(includeInactive)
        totalGames == Len(parts)
        wins       == Len(SelectSeq(parts, LAMBDA p : p.won))
        deckStats  == deckStatsOf(includeInactive)
    IN  [totalGames |-> totalGames,
         totalDecks |-> Len(filteredDecks(includeInactive)),
         winRate |-> StatisticsWinRate(wins, totalGames),
         totalPlayers |-> Cardinality(uniquePlayers(parts)),
         mostPlayedDeck |-> mostPlayedDeck(deckStats),
         leastPlayedDeck |-> leastPlayedDeck(deckStats),
         recentGames |-> recentGames(parts),
         inactiveDecksSummary |-> inactiveDecksSummary(deckStats, order)]

\* fetchStatistics: the outcome names the first failing call, or "ok"
FetchStatisticsOutcomes == {"playerError", "decksError", "gamesError", "ok"}

fetchStatistics(page, outcome, err, order) ==
    CASE FetchStatisticsEnd(page.includeInactive, outcome) = "ok" ->
            [page EXCEPT !.stats = ComputedStats(page.includeInactive, order),
                         !.loading = FALSE]
      [] FetchStatisticsEnd(page.includeInactive, outcome) = "typeError" ->
            [page EXCEPT !.error = ErrorText(PropertiesTypeError), !.loading = FALSE]
      [] OTHER ->
            [page EXCEPT !.error = ErrorText(err), !.loading = FALSE]

\* the effect after the page is mounted
\* the routes show one page at a time
OnDisplay(page) ==
    /\ route.element = "children"
    /\ route.path \in PathsOf(page)
    /\ page # "statistics" => statistics = StatisticsInitial
    /\ page # "earlierStatistics" => earlierStatistics = EarlierStatisticsInitial
    /\ page # "players" => playersPage = PlayersPageInitial
    /\ page # "dashboard" => dashboard = DashboardInitial
    /\ page # "games" => gamesPage = GamesPageInitial
    /\ page # "profile" => profile = ProfileInitial

MountStatistics(outcome, err, order) ==
    /\ OnDisplay("statistics")
    /\ statistics.loading
    /\ statistics' = fetchStatistics(statistics, outcome, err, order)
    /\ lastAction' = Ended("fetchStatistics", FetchStatisticsEnd(FALSE, outcome), FALSE)
    /\ UNCHANGED <<wrVars, navVars, deckModals, storeVars, uiVars, exceptStatistics>>

\* the Include inactive decks checkbox, and the effect its state change runs
setIncludeInactive(checked, outcome, err, order) ==
    /\ ~statistics.loading
    /\ statistics.error = NullText
    /\ checked # statistics.includeInactive
    /\ statistics' = fetchStatistics([statistics EXCEPT !.includeInactive = checked],
                                     outcome, err, order)
    /\ lastAction' = Ended("fetchStatistics", FetchStatisticsEnd(checked, outcome), FALSE)
    /\ UNCHANGED <<wrVars, navVars, deckModals, storeVars, uiVars, exceptStatistics>>

NextStatistics ==
    \/ \E outcome \in FetchStatisticsOutcomes : \E err \in ErrorsOf(outcome) :
          \E order \in SortOrders(outcome, statistics.includeInactive) :
             MountStatistics(outcome, err, order)
    \/ \E checked \in BOOLEAN, outcome \in FetchStatisticsOutcomes :
          \E err \in ErrorsOf(outcome) :
             \E order \in SortOrders(outcome, checked) :
                setIncludeInactive(checked, outcome, err, order)

(***************************************************************************)
(* Specification SpecInactive: the Statistics page over stores that differ *)
(* in the decks' inactive flags and in when each deck was played           *)
(***************************************************************************)
DeckNames == <<"Alpha", "7", "Beta", "Gamma", "3", "Delta", "Omega">>

\* 31 days, between 30 and 31 days, and exactly 30 days before Now
PlayedAtValues ==
    {Now - (InactiveDays + 1) * DayLen, Now - InactiveDays * DayLen - 1,
     Now - InactiveDays * DayLen}

\* the store after the signed-in player logged m games against one opponent:
\* game i played at playedAt[i] with deck deckOf[i], won when won[i]
StoreOf(n, names, inactive, m, deckOf, playedAt, won) ==
    /\ password = InitialPassword /\ writes = 0
    /\ players = PlayersTable(OpponentId)
    /\ decks = [i \in 1..(n + 1) |->
                  IF i <= n
                  THEN DeckRow(i, CurrentPlayerId, names[i], inactive[i])
                  ELSE DeckRow(i, OpponentId, names[i], FALSE)]
    /\ games = [i \in 1..m |-> [id |-> i, played_at |-> playedAt[i], location |-> NullText]]
    /\ game_participants =
          [k \in 1..(2 * m) |->
              LET i == (k + 1) \div 2
              IN  IF k % 2 = 1
                  THEN [game_id |-> i, player_id |-> CurrentPlayerId,
                        deck_id |-> deckOf[i], won |-> won[i],
                        created_at |-> playedAt[i]]
                  ELSE [game_id |-> i, player_id |-> OpponentId,
                        deck_id |-> n + 1, won |-> ~won[i],
                        created_at |-> playedAt[i]]]

InitInactive ==
    /\ WinRateIdle /\ UiAt("/statistics") /\ lastAction = Idle
    /\ \E n \in 0..MaxDecks, m \in 0..MaxParticipations :
          /\ m > 0 => n > 0
          /\ \E inactive \in [1..n -> BOOLEAN], deckOf \in [1..m -> 1..n],
                playedAt \in [1..m -> PlayedAtValues] :
                StoreOf(n, DeckNames, inactive, m, deckOf, playedAt, [i \in 1..m |-> FALSE])

SpecInactive == InitInactive /\ [][NextStatistics]_vars

(***************************************************************************)
(* Inactive-decks summary                                                  *)
(***************************************************************************)
StatisticsShown == ~statistics.loading /\ statistics.error = NullText

\* the decks of the signed-in player the page considers
ConsideredDecks ==
    {i \in 1..Len(decks) :
        /\ decks[i].player_id = CurrentPlayerId
        /\ (statistics.includeInactive \/ ~decks[i].properties.inactive)}

\* when the signed-in player played games with the deck
PlayedTimes(deckId) ==
    {games[g].played_at : g \in {h \in 1..Len(games) :
        \E k \in 1..Len(game_participants) :
            /\ game_participants[k].game_id = games[h].id
            /\ game_participants[k].player_id = CurrentPlayerId
            /\ game_participants[k].deck_id = deckId}}

LatestPlayed(deckId) ==
    CHOOSE t \in PlayedTimes(deckId) : \A u \in PlayedTimes(deckId) : u <= t

MoreThanThirtyDaysAgo(t) == Now - t > InactiveDays * DayLen

ListedInactive(name) ==
    Cardinality({k \in 1..Len(statistics.stats.inactiveDecksSummary) :
                    statistics.stats.inactiveDecksSummary[k].name = name})

\* C4: a considered deck is listed in the inactive-decks summary if and only
\* if it has no participation or its latest participation was played more
\* than 30 days before the current time, any time beyond 30 days included
\* (decks are told apart by name, so the listing is compared name by name).
InactiveListedIffOlderThanThirtyDays ==
    StatisticsShown =>
        \A i \in ConsideredDecks :
            ListedInactive(decks[i].name) =
                Cardinality({j \in ConsideredDecks :
                    /\ decks[j].name = decks[i].name
                    /\ \/ PlayedTimes(decks[j].id) = {}
                       \/ MoreThanThirtyDaysAgo(LatestPlayed(decks[j].id))})

(***************************************************************************)
(* Statistics page of src/pages/Statistics.tsx (fetchStatistics)           *)
(***************************************************************************)
\* the positions of the first occurrence of every value of keys
FirstOccurrences(keys) ==
    {i \in 1..Len(keys) : \A j \in 1..(i - 1) : keys[j] # keys[i]}

\* the elements of seq at the positions in S, in order
Pick(seq, S) ==
    [k \in 1..Cardinality(S) |->
        seq[CHOOSE i \in S : Cardinality({j \in S : j < i}) = k - 1]]

\* the reduce over participations: an object keyed by deck id (a uuid, never
\* an array index), so its values come in the order the ids first occur
EarlierDeckStats(parts) ==
    LET ids   == [i \in 1..Len(parts) |-> parts[i].deck.id]
        first == Pick(parts, FirstOccurrences(ids))
    IN  [k \in 1..Len(first) |->
            [id |-> first[k].deck.id, name |-> first[k].deck.name,
             gamesPlayed |-> Len(SelectSeq(parts, LAMBDA p : p.deck.id = first[k].deck.id)),
             wins |-> Len(SelectSeq(parts, LAMBDA p : p.deck.id = first[k].deck.id /\ p.won))]]

\* no guard on gamesPlayed here: every deck in deckStats has a participation
EarlierDeckSummary(deck) ==
    [name |-> deck.name, gamesPlayed |-> deck.gamesPlayed,
     winRate |-> UnguardedWinRate(deck.wins, deck.gamesPlayed)]

EarlierMostPlayedDeck(deckStats) ==
    LET sorted == StableSort(deckStats, MostPlayedOrder(deckStats))
    IN  FirstOrNull([i \in 1..(IF Len(sorted) > 0 THEN 1 ELSE 0) |->
                        EarlierDeckSummary(sorted[i])], NullDeck)

EarlierLeastPlayedDeck(deckStats) ==
    LET sorted == StableSort(deckStats, LeastPlayedOrder(deckStats))
    IN  FirstOrNull([i \in 1..(IF Len(sorted) > 0 THEN 1 ELSE 0) |->
                        EarlierDeckSummary(sorted[i])], NullDeck)

EmptyWinner == [username |-> "", display_name |-> NullText]

EarlierRecentGames(parts) ==
    LET mapped == [i \in 1..Len(parts) |->
                      [id |-> parts[i].game.id, played_at |-> parts[i].game.played_at,
                       winner |-> IF WinnerOf(parts[i].game.game_participants) = NullWinner
                                  THEN EmptyWinner
                                  ELSE WinnerOf(parts[i].game.game_participants)]]
        sorted == StableSort(mapped, RecentOrder(mapped))
    IN  SubSeq(sorted, 1, IF Len(sorted) < RecentGamesLimit THEN Len(sorted) ELSE RecentGamesLimit)

EarlierComputedStats ==
    LET parts      == Participations(PlayerIdOnly.id)
        totalGames == Len(parts)
        wins       == Len(SelectSeq(parts, LAMBDA p : p.won))
        deckStats  == EarlierDeckStats(parts)
    IN  [totalGames |-> totalGames,
         totalDecks |-> Len(SelectSeq(decks, LAMBDA d : d.player_id = PlayerIdOnly.id)),
         winRate |-> StatisticsWinRate(wins, totalGames),
         totalPlayers |-> Cardinality(uniquePlayers(parts)),
         mostPlayedDeck |-> EarlierMostPlayedDeck(deckStats),
         leastPlayedDeck |-> EarlierLeastPlayedDeck(deckStats),
         recentGames |-> EarlierRecentGames(parts)]

\* the outcome names the first failing call, or "ok"
EarlierOutcomes == {"playerError", "gamesError", "decksError", "ok"}

\* the effect after the page is mounted
MountEarlierStatistics(outcome, err) ==
    /\ OnDisplay("earlierStatistics")
    /\ earlierStatistics.loading
    /\ earlierStatistics' =
          IF outcome = "ok"
          THEN [earlierStatistics EXCEPT !.stats = EarlierComputedStats, !.loading = FALSE]
          ELSE [earlierStatistics EXCEPT !.error = ErrorText(err), !.loading = FALSE]
    /\ lastAction' = Ended("Statistics.fetchStatistics", outcome, FALSE)
    /\ UNCHANGED <<wrVars, navVars, deckModals, storeVars, uiVars, exceptEarlierStatistics>>

(***************************************************************************)
(* Players page (fetchPlayers)                                             *)
(***************************************************************************)
FavoriteDecksLimit == 3
RecentDays == 30

\* the nested select game_participants (id, won, created_at, deck (id, name))
PlayerGames(playerId) ==
    LET rows == SelectSeq(game_participants, LAMBDA r : r.player_id = playerId)
    IN  [i \in 1..Len(rows) |->
            [won |-> rows[i].won, created_at |-> rows[i].created_at,
             deck |-> [id |-> rows[i].deck_id, name |-> DeckById(rows[i].deck_id).name]]]

\* the value of a name that is a canonical array index ("7" is 7), -1 for
\* every other name
ArrayIndex(name) ==
    CASE name = "3" -> 3
      [] name = "7" -> 7
      [] OTHER -> -1

\* Object.entries of an object whose keys were added in the order of keys:
\* the array indices in ascending order, then the other keys as added
ObjectKeys(keys) ==
    LET added   == Pick(keys, FirstOccurrences(keys))
        indices == SelectSeq(added, LAMBDA k : ArrayIndex(k) >= 0)
        others  == SelectSeq(added, LAMBDA k : ArrayIndex(k) < 0)
    IN  StableSort(indices, [i \in 1..Len(indices) |-> ArrayIndex(indices[i])]) \o others

\* deckStats is keyed by the deck's name
favoriteDecks(playerGames) ==
    LET names   == [i \in 1..Len(playerGames) |-> playerGames[i].deck.name]
        keys    == ObjectKeys(names)
        entries == [k \in 1..Len(keys) |->
                      [name |-> keys[k],
                       gamesPlayed |-> Len(SelectSeq(names, LAMBDA x : x = keys[k]))]]
        sorted  == StableSort(entries, [k \in 1..Len(entries) |-> -entries[k].gamesPlayed])
    IN  SubSeq(sorted, 1, IF Len(sorted) < FavoriteDecksLimit THEN Len(sorted)
                          ELSE FavoriteDecksLimit)

\* setDate(getDate() - 30) on the current time
thirtyDaysAgo == Now - RecentDays * DayLen

ProcessedPlayer(player) ==
    LET playerGames == PlayerGames(player.id)
        totalGames  == Len(playerGames)
        wins        == Len(SelectSeq(playerGames, LAMBDA g : g.won))
    IN  [id |-> player.id, username |-> player.username, display_name |-> player.display_name,
         totalGames |-> totalGames,
         winRate |-> PlayersWinRate(wins, totalGames),
         recentGames |-> Len(SelectSeq(playerGames, LAMBDA g : g.created_at > thirtyDaysAgo)),
         favoriteDecks |-> favoriteDecks(playerGames)]

FetchPlayersOutcomes == {"playersError", "ok"}

\* the effect after the page is mounted
fetchPlayers(outcome, err) ==
    /\ OnDisplay("players")
    /\ playersPage.loading
    /\ playersPage' =
          IF outcome = "ok"
          THEN [playersPage EXCEPT
                   !.players = [i \in 1..Len(players) |-> ProcessedPlayer(players[i])],
                   !.loading = FALSE]
          ELSE [playersPage EXCEPT !.error = ErrorText(err), !.loading = FALSE]
    /\ lastAction' = Ended("fetchPlayers", outcome, FALSE)
    /\ UNCHANGED <<wrVars, navVars, deckModals, storeVars, uiVars, exceptPlayersPage>>

(***************************************************************************)
(* Specification SpecRanking: the Statistics pages and the Players page    *)
(* over stores that differ in which deck each game was played with         *)
(***************************************************************************)
\* deck names of the signed-in player: all different, or two decks of one name
\* one deck more than there are favourite-deck slots
SlotDecks == FavoriteDecksLimit + 1

RankingNames ==
    {DeckNames, <<"Alpha", "7", "Alpha", "Beta", "3", "Gamma", "Delta">>}

InitRanking ==
    /\ WinRateIdle /\ lastAction = Idle
    /\ \E path \in {"/statistics", "/players"} : UiAt(path)
    /\ \/ \E n \in 0..RankDecks, m \in 0..RankRows :
             /\ m > 0 => n > 0
             /\ \E names \in RankingNames, firstInactive \in BOOLEAN,
                   deckOf \in [1..m -> 1..n] :
                   StoreOf(n, names, [i \in 1..n |-> firstInactive /\ i = 1], m, deckOf,
                           [i \in 1..m |-> Now - i * DayLen], [i \in 1..m |-> i % 2 = 1])
       \/ \E deckOf \in [1..SlotRows -> 1..SlotDecks] :
             StoreOf(SlotDecks, DeckNames, [i \in 1..SlotDecks |-> FALSE], SlotRows, deckOf,
                     [i \in 1..SlotRows |-> Now - i * DayLen],
                     [i \in 1..SlotRows |-> i % 2 = 1])

NextRanking ==
    \/ NextStatistics
    \/ \E outcome \in EarlierOutcomes : \E err \in ErrorsOf(outcome) :
          MountEarlierStatistics(outcome, err)
    \/ \E outcome \in FetchPlayersOutcomes : \E err \in ErrorsOf(outcome) :
          fetchPlayers(outcome, err)

SpecRanking == InitRanking /\ [][NextRanking]_vars

(***************************************************************************)
(* Most and least played deck                                              *)
(***************************************************************************)
EarlierShown == ~earlierStatistics.loading /\ earlierStatistics.error = NullText

OwnDecks == {i \in 1..Len(decks) : decks[i].player_id = CurrentPlayerId}

\* the number of participations of a player with a deck
GamesWith(playerId, deckId) ==
    Cardinality({k \in 1..Len(game_participants) :
                    /\ game_participants[k].player_id = playerId
                    /\ game_participants[k].deck_id = deckId})

OwnGames(i) == GamesWith(CurrentPlayerId, decks[i].id)

PlayedDecks == {i \in OwnDecks : OwnGames(i) > 0}

IsMostPlayedOf(summary, S) ==
    IF S = {} THEN summary = NullDeck
    ELSE /\ summary # NullDeck
         /\ \E i \in S : /\ summary.name = decks[i].name
                         /\ summary.gamesPlayed = OwnGames(i)
                         /\ \A j \in S : OwnGames(j) <= OwnGames(i)

IsLeastPlayedOf(summary, S) ==
    IF S = {} THEN summary = NullDeck
    ELSE /\ summary # NullDeck
         /\ \E i \in S : /\ summary.name = decks[i].name
                         /\ summary.gamesPlayed = OwnGames(i)
                         /\ \A j \in S : OwnGames(j) >= OwnGames(i)

PlayersShown == ~playersPage.loading /\ playersPage.error = NullText

Listed(favorites, name) == \E k \in 1..Len(favorites) : favorites[k].name = name

\* C6: every player's favoriteDecks has at most 3 entries in non-increasing
\* gamesPlayed order, each entry counts the player's participations with one
\* deck of that name, and a deck left out has no more participations than
\* any deck listed.
FavoriteDecksCountOneDeckEach ==
    PlayersShown =>
        \A p \in 1..Len(playersPage.players) :
            LET favorites == playersPage.players[p].favoriteDecks
                playerId  == playersPage.players[p].id
            IN  /\ Len(favorites) <= 3
                /\ \A k \in 1..(Len(favorites) - 1) :
                      favorites[k].gamesPlayed >= favorites[k + 1].gamesPlayed
                /\ \A k \in 1..Len(favorites) :
                      \E d \in 1..Len(decks) :
                         /\ decks[d].name = favorites[k].name
                         /\ GamesWith(playerId, decks[d].id) > 0
                         /\ favorites[k].gamesPlayed = GamesWith(playerId, decks[d].id)
                /\ \A d \in 1..Len(decks) :
                      GamesWith(playerId, decks[d].id) > 0 /\ ~Listed(favorites, decks[d].name)
                         => \A k \in 1..Len(favorites) :
                               GamesWith(playerId, decks[d].id) <= favorites[k].gamesPlayed

(***************************************************************************)
(* Ties                                                                    *)
(***************************************************************************)
\* the first of the decks in S, in fetched order, with the most games
FirstWithMost(S) ==
    CHOOSE i \in S : \A j \in S :
        OwnGames(j) < OwnGames(i) \/ (OwnGames(j) = OwnGames(i) /\ i <= j)

FirstWithLeast(S) ==
    CHOOSE i \in S : \A j \in S :
        OwnGames(j) > OwnGames(i) \/ (OwnGames(j) = OwnGames(i) /\ i <= j)

StatisticsTiesGoToFirstFetched ==
    StatisticsShown /\ ConsideredDecks # {} =>
        /\ statistics.stats.mostPlayedDeck.name = decks[FirstWithMost(ConsideredDecks)].name
        /\ statistics.stats.leastPlayedDeck.name = decks[FirstWithLeast(ConsideredDecks)].name

\* the names of the decks of a player's participations, in fetched order
FetchedNames(playerId) ==
    LET rows == SelectSeq(game_participants, LAMBDA r : r.player_id = playerId)
    IN  [i \in 1..Len(rows) |-> DeckById(rows[i].deck_id).name]

GamesNamed(playerId, name) ==
    Cardinality({i \in 1..Len(FetchedNames(playerId)) : FetchedNames(playerId)[i] = name})

FirstFetched(playerId, name) ==
    CHOOSE i \in 1..Len(FetchedNames(playerId)) :
        /\ FetchedNames(playerId)[i] = name
        /\ \A j \in 1..(i - 1) : FetchedNames(playerId)[j] # name

FetchedBefore(playerId, a, b) == FirstFetched(playerId, a) < FirstFetched(playerId, b)

\* the order of the keys of an object: array indices first, in ascending
\* order, then the other names as fetched
KeyBefore(playerId, a, b) ==
    IF ArrayIndex(a) >= 0
    THEN ArrayIndex(b) < 0 \/ ArrayIndex(a) < ArrayIndex(b)
    ELSE ArrayIndex(b) < 0 /\ FetchedBefore(playerId, a, b)

OrderedBy(keys) ==
    {order \in Orderings(Len(keys)) :
        \A i, j \in 1..Len(keys) : i < j => keys[order[i]] <= keys[order[j]]}

\* the collation of the deck names in use
NameOrder == <<"3", "7", "Alpha", "Beta", "Delta", "Gamma", "Omega", "Zeta">>
NameRank(name) == CHOOSE k \in 1..Len(NameOrder) : NameOrder[k] = name

OwnDeckRows == SelectSeq(decks, LAMBDA d : d.player_id = PlayerIdOnly.id)

\* .order('name')
DecksByName == OrderedBy([i \in 1..Len(OwnDeckRows) |-> NameRank(OwnDeckRows[i].name)])

\* select('won') of the game_participants rows of a deck
WonOfDeck(deckId) ==
    LET rows == SelectSeq(game_participants, LAMBDA r : r.deck_id = deckId)
    IN  [i \in 1..Len(rows) |-> rows[i].won]

DeckWithStats(deck) ==
    LET participations == WonOfDeck(deck.id)
        totalGames == Len(participations)
        wins == Len(SelectSeq(participations, LAMBDA w : w))
    IN  [id |-> deck.id, name |-> deck.name, properties |-> deck.properties,
         totalGames |-> totalGames, winRate |-> DeckWinRate(wins, totalGames)]

\* d2.winRate - d1.winRate || d2.totalGames - d1.totalGames
DashboardOrder(withStats) ==
    [i \in 1..Len(withStats) |->
        -(withStats[i].winRate * (Len(game_participants) + 1) + withStats[i].totalGames)]

PromiseAllOfTheFulfilled(results, failed) ==
    [status |-> "fulfilled",
     value |-> Pick(results, (1..Len(results)) \ failed)]

\* Promise.all over the calls made for the rows: fulfilled with every result
\* when no call fails, rejected when one does, whatever the others do
PromiseAll(results, failed) ==
    IF failed = {} THEN [status |-> "fulfilled", value |-> results]
    ELSE [status |-> "rejected", value |-> <<>>]

\* the calls of a fan-out: one for each row, all issued before any is awaited
FanOut(name, ids, failed) == [k \in 1..Len(ids) |-> Call(name, {ids[k]}, k \in failed)]

\* the per-deck calls are made only when there is a deck
FetchDecksOutcomes ==
    {"playerError", "decksError", "ok"}
       \cup (IF Len(OwnDeckRows) > 0 THEN {"gamesError"} ELSE {})

fetchDecksStuckLoading(outcome, err, order, failed) ==
    /\ OnDisplay("dashboard")
    /\ dashboard.loading
    /\ (outcome = "gamesError") = (failed # {})
    /\ LET decksData == [i \in 1..Len(order) |-> OwnDeckRows[order[i]]]
           decksWithStats ==
              PromiseAll([i \in 1..Len(decksData) |-> DeckWithStats(decksData[i])],
                         failed)
       IN  /\ dashboard' =
                 IF outcome \notin {"playerError", "decksError"}
                    /\ decksWithStats.status = "fulfilled"
                 THEN [dashboard EXCEPT
                          !.decks = StableSort(decksWithStats.value,
                                               DashboardOrder(decksWithStats.value)),
                          !.loading = FALSE]
                 ELSE [dashboard EXCEPT !.error = ErrorText(err)]
           /\ lastAction' =
                 FannedOut(Ended("fetchDecks", outcome, FALSE),
                           FanOut("game_participants.select",
                                  [i \in 1..Len(decksData) |-> decksData[i].id], failed))
    /\ UNCHANGED <<wrVars, navVars, deckModals, storeVars, uiVars, exceptDashboard>>

\* the effect after the page is mounted
fetchDecks(outcome, err, order, failed) ==
    /\ OnDisplay("dashboard")
    /\ dashboard.loading
    /\ (outcome = "gamesError") = (failed # {})
    /\ LET decksData == [i \in 1..Len(order) |-> OwnDeckRows[order[i]]]
           decksWithStats ==
              PromiseAll([i \in 1..Len(decksData) |-> DeckWithStats(decksData[i])],
                         failed)
       IN  /\ dashboard' =
                 IF outcome \notin {"playerError", "decksError"}
                    /\ decksWithStats.status = "fulfilled"
                 THEN [dashboard EXCEPT
                          !.decks = StableSort(decksWithStats.value,
                                               DashboardOrder(decksWithStats.value)),
                          !.loading = FALSE]
                 ELSE [dashboard EXCEPT !.error = ErrorText(err), !.loading = FALSE]
           /\ lastAction' =
                 FannedOut(Ended("fetchDecks", outcome, FALSE),
                           FanOut("game_participants.select",
                                  [i \in 1..Len(decksData) |-> decksData[i].id], failed))
    /\ UNCHANGED <<wrVars, navVars, deckModals, storeVars, uiVars, exceptDashboard>>

\* the decks whose card, with its Add Game button, the Dashboard shows
DashboardDeckIds ==
    IF dashboard.loading \/ dashboard.error # NullText THEN {}
    ELSE {dashboard.decks[i].id : i \in 1..Len(dashboard.decks)}

(***************************************************************************)
(* Games: the games the signed-in player took part in                      *)
(***************************************************************************)
\* game_participants!inner with .eq('game_participants.player_id', player.id)
OwnGameRows ==
    SelectSeq(games, LAMBDA g :
        \E k \in 1..Len(game_participants) :
            /\ game_participants[k].game_id = g.id
            /\ game_participants[k].player_id = PlayerIdOnly.id)

\* .order('played_at', { ascending: false })
GamesByPlayedAt == OrderedBy([i \in 1..Len(OwnGameRows) |-> -OwnGameRows[i].played_at])

AllParticipantsOfThePlayer(gameId) ==
    LET rows == SelectSeq(game_participants,
                          LAMBDA r : r.game_id = gameId /\ r.player_id = PlayerIdOnly.id)
    IN  [i \in 1..Len(rows) |->
            [won    |-> rows[i].won,
             player |-> [username |-> PlayerById(rows[i].player_id).username,
                         display_name |-> PlayerById(rows[i].player_id).display_name],
             deck   |-> [name |-> DeckById(rows[i].deck_id).name]]]

\* select won, player (username, display_name), deck (name) of a game's rows
AllParticipants(gameId) ==
    LET rows == SelectSeq(game_participants, LAMBDA r : r.game_id = gameId)
    IN  [i \in 1..Len(rows) |->
            [won    |-> rows[i].won,
             player |-> [username |-> PlayerById(rows[i].player_id).username,
                         display_name |-> PlayerById(rows[i].player_id).display_name],
             deck   |-> [name |-> DeckById(rows[i].deck_id).name]]]

\* the per-game calls are made only when there is a game
FetchGamesOutcomes ==
    {"playerError", "gamesError", "ok"}
       \cup (IF Len(OwnGameRows) > 0 THEN {"participantsError"} ELSE {})

\* the effect after the page is mounted
fetchGames(outcome, err, order, failed) ==
    /\ OnDisplay("games")
    /\ gamesPage.loading
    /\ (outcome = "participantsError") = (failed # {})
    /\ LET gamesData == [i \in 1..Len(order) |-> OwnGameRows[order[i]]]
           gamesWithAllParticipants ==
              PromiseAll([i \in 1..Len(gamesData) |->
                            [id |-> gamesData[i].id,
                             played_at |-> gamesData[i].played_at,
                             location |-> gamesData[i].location,
                             game_participants |-> AllParticipants(gamesData[i].id)]],
                         failed)
       IN  /\ gamesPage' =
                 IF outcome \notin {"playerError", "gamesError"}
                    /\ gamesWithAllParticipants.status = "fulfilled"
                 THEN [gamesPage EXCEPT !.games = gamesWithAllParticipants.value,
                                        !.loading = FALSE]
                 ELSE [gamesPage EXCEPT !.error = ErrorText(err), !.loading = FALSE]
           /\ lastAction' =
                 FannedOut(Ended("fetchGames", outcome, FALSE),
                           FanOut("game_participants.select",
                                  [i \in 1..Len(gamesData) |-> gamesData[i].id], failed))
    /\ UNCHANGED <<wrVars, navVars, deckModals, storeVars, uiVars, exceptGamesPage>>

(***************************************************************************)
(* Profile: display name and password                                      *)
(***************************************************************************)
FetchProfileOutcomes == {"playerError", "ok"}

\* the effect after the page is mounted
fetchProfile(outcome, err) ==
    /\ OnDisplay("profile")
    /\ profile.loading
    /\ profile' =
          IF outcome = "ok"
          THEN LET player == PlayerById(CurrentPlayerId)
               IN  [profile EXCEPT
                      !.displayName = IF player.display_name = NullText THEN ""
                                      ELSE player.display_name,
                      !.loading = FALSE]
          ELSE [profile EXCEPT !.error = ErrorText(err), !.loading = FALSE]
    /\ lastAction' = Ended("fetchProfile", outcome, FALSE)
    /\ UNCHANGED <<wrVars, navVars, deckModals, storeVars, uiVars, exceptProfile>>

\* the forms are rendered once the profile is no longer loading
ProfileRendered == OnDisplay("profile") /\ ~profile.loading

setDisplayName(value) ==
    /\ ProfileRendered
    /\ value # profile.displayName
    /\ profile' = [profile EXCEPT !.displayName = value]
    /\ lastAction' = Idle
    /\ UNCHANGED <<wrVars, navVars, deckModals, storeVars, uiVars, exceptProfile>>

setNewPassword(value) ==
    /\ ProfileRendered
    /\ value # profile.newPassword
    /\ profile' = [profile EXCEPT !.newPassword = value]
    /\ lastAction' = Idle
    /\ UNCHANGED <<wrVars, navVars, deckModals, storeVars, uiVars, exceptProfile>>

setConfirmPassword(value) ==
    /\ ProfileRendered
    /\ value # profile.confirmPassword
    /\ profile' = [profile EXCEPT !.confirmPassword = value]
    /\ lastAction' = Idle
    /\ UNCHANGED <<wrVars, navVars, deckModals, storeVars, uiVars, exceptProfile>>

UpdateOutcomes == {"updateError", "ok"}

\* .update({ display_name: displayName || null }).eq('user_id', user.id)
UpdatedDisplayName ==
    [i \in 1..Len(players) |->
        IF players[i].id = CurrentPlayerId
        THEN [players[i] EXCEPT
                !.display_name = IF profile.displayName = "" THEN NullText
                                 ELSE profile.displayName]
        ELSE players[i]]

handleUpdateDisplayName(outcome, err) ==
    /\ ProfileRendered
    /\ IF outcome = "ok"
       THEN /\ players' = UpdatedDisplayName
            /\ writes' = writes + 1
            /\ profile' = [profile EXCEPT
                              !.error = NullText,
                              !.success = "Display name updated successfully"]
       ELSE /\ profile' = [profile EXCEPT !.error = ErrorText(err), !.success = NullText]
            /\ UNCHANGED <<players, writes>>
    /\ lastAction' = Ended("handleUpdateDisplayName", outcome, FALSE)
    /\ UNCHANGED <<wrVars, navVars, deckModals, decks, games, game_participants, password,
                   uiVars, exceptProfile>>

\* both password inputs are required
handleUpdatePassword(outcome, err) ==
    /\ ProfileRendered
    /\ profile.newPassword # "" /\ profile.confirmPassword # ""
    /\ IF profile.newPassword # profile.confirmPassword
       THEN /\ profile' = [profile EXCEPT !.error = "New passwords do not match",
                                          !.success = NullText]
            /\ lastAction' = Ended("handleUpdatePassword", "rejected", FALSE)
            /\ UNCHANGED <<password, writes>>
       ELSE /\ IF outcome = "ok"
               THEN /\ password' = profile.newPassword
                    /\ writes' = writes + 1
                    /\ profile' = [profile EXCEPT
                                      !.error = NullText,
                                      !.success = "Password updated successfully",
                                      !.currentPassword = "", !.newPassword = "",
                                      !.confirmPassword = ""]
               ELSE /\ profile' = [profile EXCEPT !.error = ErrorText(err),
                                                  !.success = NullText]
                    /\ UNCHANGED <<password, writes>>
            /\ lastAction' = Ended("handleUpdatePassword", outcome, FALSE)
    /\ UNCHANGED <<wrVars, navVars, deckModals, players, decks, games, game_participants,
                   uiVars, exceptProfile>>

(***************************************************************************)
(* NewDeckModal and EditDeckModal                                          *)
(***************************************************************************)
formats == {"Commander", "Standard", "Modern", "Legacy", "Vintage", "Pioneer", "Pauper"}
Colors == {"white", "blue", "black", "red", "green", "colorless"}

ChangedColorsSettingColorless(colors, color) ==
    IF color = "colorless"
    THEN [NoColors EXCEPT !.colorless = ~colors.colorless]
    ELSE [colors EXCEPT ![color] = ~colors[color], !.colorless = TRUE]

\* handleColorChange of both modals
ChangedColors(colors, color) ==
    IF color = "colorless"
    THEN [NoColors EXCEPT !.colorless = ~colors.colorless]
    ELSE [colors EXCEPT ![color] = ~colors[color], !.colorless = FALSE]

\* a colour button is disabled while the other kind of colour is chosen
ColorDisabled(colors, color) ==
    IF color = "colorless"
    THEN \E c \in Colors \ {"colorless"} : colors[c]
    ELSE colors.colorless

hasColors(colors) == \E c \in Colors : colors[c]

\* none of the three modals, each an overlay of the whole window, is open
NoModalOpen ==
    ~app.isNewGameModalOpen /\ ~app.isNewDeckModalOpen /\ ~editDeckModal.isOpen

\* the New Deck button of the navigation; the one of the mobile menu closes
\* the menu
openNewDeckModal(mobile) ==
    /\ NoModalOpen
    /\ mobile => app.isMenuOpen
    /\ app' = [app EXCEPT !.isNewDeckModalOpen = TRUE,
                          !.isMenuOpen = IF mobile THEN FALSE ELSE @]
    /\ lastAction' = Idle
    /\ UNCHANGED <<wrVars, navVars, deckModals, storeVars, newGameModal, pageVars>>

\* onClose of the NewDeckModal; the form keeps what was entered
closeNewDeckModal ==
    /\ app.isNewDeckModalOpen
    /\ app' = [app EXCEPT !.isNewDeckModalOpen = FALSE]
    /\ lastAction' = Idle
    /\ UNCHANGED <<wrVars, navVars, deckModals, storeVars, newGameModal, pageVars>>

NewDeckEdit(field, value) ==
    /\ app.isNewDeckModalOpen
    /\ newDeckModal[field] # value
    /\ newDeckModal' = [newDeckModal EXCEPT ![field] = value]
    /\ lastAction' = Idle
    /\ UNCHANGED <<wrVars, navVars, storeVars, uiVars, pageVars, editDeckModal>>

NewDeckColorChange(color) ==
    /\ app.isNewDeckModalOpen
    /\ ~ColorDisabled(newDeckModal.colors, color)
    /\ newDeckModal' = [newDeckModal EXCEPT !.colors = ChangedColors(@, color)]
    /\ lastAction' = Idle
    /\ UNCHANGED <<wrVars, navVars, storeVars, uiVars, pageVars, editDeckModal>>

InsertedDeckOfLastPlayer ==
    [id |-> Len(decks) + 1, player_id |-> players[Len(players)].id,
     name |-> newDeckModal.name, format |-> newDeckModal.format,
     commander |-> IF newDeckModal.format = "Commander" THEN newDeckModal.commander
                   ELSE NullText,
     is_white |-> newDeckModal.colors.white, is_blue |-> newDeckModal.colors.blue,
     is_black |-> newDeckModal.colors.black, is_red |-> newDeckModal.colors.red,
     is_green |-> newDeckModal.colors.green,
     is_colorless |-> newDeckModal.colors.colorless,
     properties |-> NullProperties]

\* the decks row of the insert: it names no properties, which stay null
InsertedDeck ==
    [id |-> Len(decks) + 1, player_id |-> PlayerIdOnly.id, name |-> newDeckModal.name,
     format |-> newDeckModal.format,
     commander |-> IF newDeckModal.format = "Commander" THEN newDeckModal.commander
                   ELSE NullText,
     is_white |-> newDeckModal.colors.white, is_blue |-> newDeckModal.colors.blue,
     is_black |-> newDeckModal.colors.black, is_red |-> newDeckModal.colors.red,
     is_green |-> newDeckModal.colors.green,
     is_colorless |-> newDeckModal.colors.colorless,
     properties |-> NullProperties]

NewDeckOutcomes == {"playerError", "deckError", "ok"}

NewDeckSubmitNoReload(outcome, err) ==
    /\ app.isNewDeckModalOpen
    /\ ~newDeckModal.loading /\ newDeckModal.name # "" /\ hasColors(newDeckModal.colors)
    /\ IF outcome = "ok"
       THEN /\ decks' = Append(decks, InsertedDeck)
            /\ writes' = writes + 1
            /\ newDeckModal' = NewDeckModalInitial
            /\ app' = [app EXCEPT !.isNewDeckModalOpen = FALSE]
            /\ UNCHANGED <<players, games, game_participants, password, newGameModal,
                           pageVars, editDeckModal>>
       ELSE /\ newDeckModal' = [newDeckModal EXCEPT !.error = ErrorText(err),
                                                    !.loading = FALSE]
            /\ UNCHANGED <<storeVars, uiVars, pageVars, editDeckModal>>
    /\ lastAction' = Ended("NewDeckModal.handleSubmit", outcome, FALSE)
    /\ UNCHANGED <<wrVars, navVars>>

\* the Create Deck button: handleSubmit
NewDeckSubmit(outcome, err) ==
    /\ app.isNewDeckModalOpen
    /\ ~newDeckModal.loading /\ newDeckModal.name # "" /\ hasColors(newDeckModal.colors)
    /\ IF outcome = "ok"
       THEN /\ decks' = Append(decks, InsertedDeck)
            /\ writes' = writes + 1
            /\ Reloaded
            /\ UNCHANGED <<players, games, game_participants, password>>
       ELSE /\ newDeckModal' = [newDeckModal EXCEPT !.error = ErrorText(err),
                                                    !.loading = FALSE]
            /\ UNCHANGED <<storeVars, uiVars, pageVars, editDeckModal>>
    /\ lastAction' = Ended("NewDeckModal.handleSubmit", outcome, outcome = "ok")
    /\ UNCHANGED <<wrVars, navVars>>

\* the decks an EditDeckModal can be given: the component reads
\* deck.properties.format when it mounts
EditableDeckIds ==
    {OwnDeckRows[i].id : i \in {k \in 1..Len(OwnDeckRows) : ~OwnDeckRows[k].properties.isNull}}

\* the modal is mounted, open, for a deck: useState takes the deck's values
EditDeckModalOf(deck) ==
    [isOpen |-> TRUE, deckId |-> deck.id, name |-> deck.name,
     format |-> deck.properties.format,
     commander |-> IF deck.properties.commander = NullText THEN ""
                   ELSE deck.properties.commander,
     colors |-> deck.properties.colorIdentity, inactive |-> deck.properties.inactive,
     error |-> NullText, loading |-> FALSE]

openEditDeckModal(deckId) ==
    /\ NoModalOpen
    /\ deckId \in EditableDeckIds
    /\ editDeckModal' = EditDeckModalOf(DeckById(deckId))
    /\ lastAction' = Idle
    /\ UNCHANGED <<wrVars, navVars, storeVars, uiVars, pageVars, newDeckModal>>

\* onClose of the EditDeckModal
closeEditDeckModal ==
    /\ editDeckModal.isOpen
    /\ editDeckModal' = EditDeckModalClosed
    /\ lastAction' = Idle
    /\ UNCHANGED <<wrVars, navVars, storeVars, uiVars, pageVars, newDeckModal>>

EditDeckEdit(field, value) ==
    /\ editDeckModal.isOpen
    /\ editDeckModal[field] # value
    /\ editDeckModal' = [editDeckModal EXCEPT ![field] = value]
    /\ lastAction' = Idle
    /\ UNCHANGED <<wrVars, navVars, storeVars, uiVars, pageVars, newDeckModal>>

EditDeckColorChange(color) ==
    /\ editDeckModal.isOpen
    /\ ~ColorDisabled(editDeckModal.colors, color)
    /\ editDeckModal' = [editDeckModal EXCEPT !.colors = ChangedColors(@, color)]
    /\ lastAction' = Idle
    /\ UNCHANGED <<wrVars, navVars, storeVars, uiVars, pageVars, newDeckModal>>

\* .update({ name, properties: {...} }).eq('id', deck.id)
UpdatedDecks ==
    [i \in 1..Len(decks) |->
        IF decks[i].id = editDeckModal.deckId
        THEN [decks[i] EXCEPT
                !.name = editDeckModal.name,
                !.properties =
                    Properties(editDeckModal.format,
                               IF editDeckModal.format = "Commander"
                               THEN editDeckModal.commander ELSE NullText,
                               editDeckModal.colors, editDeckModal.inactive)]
        ELSE decks[i]]

\* the Save Changes button: handleSubmit
EditDeckSubmit(outcome, err) ==
    /\ editDeckModal.isOpen
    /\ ~editDeckModal.loading /\ editDeckModal.name # ""
    /\ hasColors(editDeckModal.colors)
    /\ IF outcome = "ok"
       THEN /\ decks' = UpdatedDecks
            /\ writes' = writes + 1
            /\ Reloaded
            /\ UNCHANGED <<players, games, game_participants, password>>
       ELSE /\ editDeckModal' = [editDeckModal EXCEPT !.error = ErrorText(err),
                                                      !.loading = FALSE]
            /\ UNCHANGED <<storeVars, uiVars, pageVars, newDeckModal>>
    /\ lastAction' = Ended("EditDeckModal.handleSubmit", outcome, outcome = "ok")
    /\ UNCHANGED <<wrVars, navVars>>

(***************************************************************************)
(* Navigation                                                              *)
(***************************************************************************)
\* the pages' state is lost when their route is left
PagesUnmounted ==
    /\ statistics' = StatisticsInitial
    /\ earlierStatistics' = EarlierStatisticsInitial
    /\ playersPage' = PlayersPageInitial
    /\ dashboard' = DashboardInitial
    /\ gamesPage' = GamesPageInitial
    /\ profile' = ProfileInitial

\* "/" and "/decks" render the same element
SamePage(before, after) ==
    /\ before.element = after.element
    /\ \/ before.path = after.path
       \/ {before.path, after.path} \subseteq PathsOf("dashboard")

\* what the route shows after the path or the authentication changed: a page
\* that is rendered before and after may keep its state or be mounted anew
Rerouted(path, useAuth) ==
    /\ route' = RouteAt(path, useAuth)
    /\ \/ SamePage(route, route') /\ UNCHANGED pageVars
       \/ route' # route /\ PagesUnmounted

\* the mobile menu button
toggleMenu ==
    /\ NoModalOpen
    /\ app' = [app EXCEPT !.isMenuOpen = ~app.isMenuOpen]
    /\ lastAction' = Idle
    /\ UNCHANGED <<wrVars, navVars, deckModals, storeVars, newGameModal, pageVars>>

LinkTargets == {"/", "/decks", "/games", "/players", "/statistics", "/profile"}

\* a link of the navigation; the links of the mobile menu close the menu
Link(to, mobile) ==
    /\ NoModalOpen
    /\ to \in LinkTargets
    /\ mobile => app.isMenuOpen /\ to # "/"
    /\ Rerouted(to, auth)
    /\ app' = IF mobile THEN [app EXCEPT !.isMenuOpen = FALSE] ELSE app
    /\ lastAction' = Idle
    /\ UNCHANGED <<wrVars, auth, deckModals, storeVars, newGameModal>>

\* <Navigate to="/login" />
Redirect ==
    /\ route.element = "Navigate to /login"
    /\ Rerouted(LoginPath, auth)
    /\ lastAction' = Idle
    /\ UNCHANGED <<wrVars, auth, deckModals, storeVars, uiVars>>

\* useAuth() returns another user or loading flag
AuthChange(useAuth) ==
    /\ useAuth # auth
    /\ auth' = useAuth
    /\ Rerouted(route.path, useAuth)
    /\ lastAction' = Idle
    /\ UNCHANGED <<wrVars, deckModals, storeVars, uiVars>>

\* the window is loaded again: every component starts from its initial state
PageLoad ==
    /\ Reloaded
    /\ lastAction' = Idle
    /\ UNCHANGED <<wrVars, navVars, storeVars>>

(***************************************************************************)
(* Specification SpecApp: the signed-in player uses the pages and the      *)
(* modals, one form at a time, over a store of two players with a deck     *)
(* each                                                                    *)
(***************************************************************************)
\* bound: the backend writes of a behaviour
MaxWrites == 2

InitApp ==
    /\ WinRateIdle /\ UiInitial /\ lastAction = Idle
    /\ players = PlayersTable(OpponentId)
    /\ decks = <<DeckRow(1, CurrentPlayerId, "Alpha", FALSE),
                 DeckRow(2, OpponentId, "Beta", FALSE)>>
    /\ games = <<>>
    /\ game_participants = <<>>
    /\ password = InitialPassword /\ writes = 0

GameModalPristine == ~app.isNewGameModalOpen /\ newGameModal = NewGameModalInitial
NewDeckPristine == ~app.isNewDeckModalOpen /\ newDeckModal = NewDeckModalInitial
EditDeckPristine == editDeckModal = EditDeckModalClosed
ModalsPristine == GameModalPristine /\ NewDeckPristine /\ EditDeckPristine

\* the deck modals are opened on the start page, before its decks are fetched
OnStartPage == route.path = "/" /\ PagesInitial

\* the values typed into the forms
DisplayNames == {"", "Ann"}
NewPasswords == {"", "hunter2"}
ConfirmPasswords == {"", "hunter2", "hunter3"}
TypedDeckNames == {"", "Zeta"}
TypedCommanders == {"", "Atraxa"}
ChosenFormats == {"Commander", "Modern"}
ChosenColors == {"white"}

\* the order a sorted query returns its rows in; a failing fetch has no rows
RowOrders(outcome, orders) == IF outcome = "ok" THEN orders ELSE {<<>>}

\* the same for a fetch that goes on to one call for each row: the rows are
\* there when these calls are made, and any of the calls may be the failing ones
FanOutRows(outcome, fanError, orders) ==
    IF outcome \in {"ok", fanError} THEN orders ELSE {<<>>}

FanOutFailures(outcome, fanError, order) ==
    IF outcome = fanError THEN SUBSET (1..Len(order)) \ {{}} ELSE {{}}

NextPages ==
    \/ NextStatistics
    \/ \E outcome \in EarlierOutcomes : \E err \in ErrorsOf(outcome) :
          MountEarlierStatistics(outcome, err)
    \/ \E outcome \in FetchPlayersOutcomes : \E err \in ErrorsOf(outcome) :
          fetchPlayers(outcome, err)
    \/ \E outcome \in FetchDecksOutcomes : \E err \in ErrorsOf(outcome) :
          \E order \in FanOutRows(outcome, "gamesError", DecksByName) :
             \E failed \in FanOutFailures(outcome, "gamesError", order) :
                fetchDecks(outcome, err, order, failed)
    \/ \E outcome \in FetchGamesOutcomes : \E err \in ErrorsOf(outcome) :
          \E order \in FanOutRows(outcome, "participantsError", GamesByPlayedAt) :
             \E failed \in FanOutFailures(outcome, "participantsError", order) :
                fetchGames(outcome, err, order, failed)
    \/ \E outcome \in FetchProfileOutcomes : \E err \in ErrorsOf(outcome) :
          fetchProfile(outcome, err)

NextProfile ==
    \/ \E value \in DisplayNames : setDisplayName(value)
    \/ \E value \in NewPasswords : setNewPassword(value)
    \/ \E value \in ConfirmPasswords : setConfirmPassword(value)
    \/ \E outcome \in UpdateOutcomes : \E err \in ErrorsOf(outcome) :
          writes < MaxWrites /\ handleUpdateDisplayName(outcome, err)
    \/ \E outcome \in UpdateOutcomes : \E err \in ErrorsOf(outcome) :
          writes < MaxWrites /\ handleUpdatePassword(outcome, err)

NextGameModal ==
    \/ \E deckId \in DashboardDeckIds, outcome \in FetchDataOutcomes :
          \E err \in ErrorsOf(outcome) :
             /\ NewDeckPristine /\ EditDeckPristine
             /\ handleNewGame(deckId, outcome, err)
    \/ \E playerId \in PlayerIds, deckId \in AllDeckIds : handleAddPlayer(playerId, deckId)
    \/ \E playerId \in PlayerIds : handleWinStateChange(playerId, TRUE)
    \/ onClose
    \/ \E outcome \in SubmitOutcomes : \E err \in ErrorsOf(outcome) :
          writes + 2 <= MaxWrites /\ ClickCreateGame(outcome, err)

NextNewDeck ==
    \/ OnStartPage /\ GameModalPristine /\ EditDeckPristine /\ openNewDeckModal(FALSE)
    \/ closeNewDeckModal
    \/ \E value \in TypedDeckNames : NewDeckEdit("name", value)
    \/ \E value \in ChosenFormats : NewDeckEdit("format", value)
    \/ \E value \in TypedCommanders :
          newDeckModal.format = "Commander" /\ NewDeckEdit("commander", value)
    \/ \E color \in ChosenColors : NewDeckColorChange(color)
    \/ \E outcome \in NewDeckOutcomes : \E err \in ErrorsOf(outcome) :
          writes < MaxWrites /\ NewDeckSubmit(outcome, err)

NextEditDeck ==
    \/ \E deckId \in EditableDeckIds :
          /\ OnStartPage /\ GameModalPristine /\ NewDeckPristine
          /\ openEditDeckModal(deckId)
    \/ closeEditDeckModal
    \/ \E value \in TypedDeckNames : EditDeckEdit("name", value)
    \/ \E value \in BOOLEAN : EditDeckEdit("inactive", value)
    \/ \E color \in ChosenColors : EditDeckColorChange(color)
    \/ \E outcome \in UpdateOutcomes : \E err \in ErrorsOf(outcome) :
          writes < MaxWrites /\ EditDeckSubmit(outcome, err)

NextApp ==
    \/ ModalsPristine /\ NextPages
    \/ ModalsPristine /\ NextProfile
    \/ ModalsPristine /\ \E to \in LinkTargets : Link(to, FALSE)
    \/ NextGameModal
    \/ NextNewDeck
    \/ NextEditDeck
    \/ PageLoad

SpecApp == InitApp /\ [][NextApp]_vars

(***************************************************************************)
(* Specification SpecRoute: the routes while the authentication changes    *)
(***************************************************************************)
AuthStates == [user : {NoUser, CurrentUser}, loading : BOOLEAN]

\* the authentication is being checked when the application starts
AuthInitial == [user |-> NoUser, loading |-> TRUE]

InitRoute ==
    /\ WinRateIdle /\ lastAction = Idle
    /\ app = AppInitial /\ newGameModal = NewGameModalInitial
    /\ PagesInitial /\ DeckModalsInitial
    /\ auth = AuthInitial /\ route = RouteAt("/", AuthInitial)
    /\ players = PlayersTable(OpponentId)
    /\ decks = <<DeckRow(1, CurrentPlayerId, "Alpha", FALSE),
                 DeckRow(2, OpponentId, "Beta", FALSE)>>
    /\ games = <<>>
    /\ game_participants = <<>>
    /\ password = InitialPassword /\ writes = 0

NextRoute ==
    \/ \E useAuth \in AuthStates : AuthChange(useAuth)
    \/ \E to \in LinkTargets, mobile \in BOOLEAN : Link(to, mobile)
    \/ Redirect
    \/ toggleMenu
    \/ \E mobile \in BOOLEAN : openNewDeckModal(mobile)
    \/ closeNewDeckModal
    \/ NextPages

SpecRoute == InitRoute /\ [][NextRoute]_vars

(***************************************************************************)
(* C8: which backend writes are followed by a reload of the window         *)
(***************************************************************************)
\* a step in which a handler's insert or update reached the backend
Mutated == writes' # writes

\* every component is back at its initial state, as after window.location.reload()
WindowReloaded ==
    /\ app' = AppInitial /\ newGameModal' = NewGameModalInitial
    /\ newDeckModal' = NewDeckModalInitial /\ editDeckModal' = EditDeckModalClosed
    /\ statistics' = StatisticsInitial /\ earlierStatistics' = EarlierStatisticsInitial
    /\ playersPage' = PlayersPageInitial /\ dashboard' = DashboardInitial
    /\ gamesPage' = GamesPageInitial /\ profile' = ProfileInitial

\* C8 as stated: every backend mutation (deck insert, deck update, game and
\* participants insert, display-name update, password update) is followed by
\* a full page reload, unconditionally.
EveryMutationReloads ==
    [][Mutated => lastAction'.reload /\ WindowReloaded]_vars

\* C8 amended: a deck insert, a deck update and a game submission whose
\* participants insert succeeds are followed by a full page reload; a
\* display-name update and a password update are not: the Profile page stays
\* and shows a success message; and a game insert whose participants insert
\* fails leaves its games row with no reload, the error shown in the modal.
MutationsReloadExceptProfileAndFailedGame ==
    [][Mutated =>
        /\ lastAction'.handler \in {"NewDeckModal.handleSubmit", "EditDeckModal.handleSubmit",
                                    "handleSubmit", "handleUpdateDisplayName",
                                    "handleUpdatePassword"}
        /\ lastAction'.handler \in {"NewDeckModal.handleSubmit",
                                    "EditDeckModal.handleSubmit"}
              => lastAction'.reload /\ WindowReloaded
        /\ lastAction'.handler = "handleSubmit"
              => IF game_participants' # game_participants
                 THEN lastAction'.reload /\ WindowReloaded
                 ELSE /\ ~lastAction'.reload
                      /\ games' # games
                      /\ app'.isNewGameModalOpen
                      /\ newGameModal'.error # NullText
        /\ lastAction'.handler \in {"handleUpdateDisplayName", "handleUpdatePassword"}
              => /\ ~lastAction'.reload
                 /\ ~profile'.loading
                 /\ profile'.success # NullText]_vars

\* a display name was updated and the Profile page is still shown
DisplayNameUpdatedWithoutReload ==
    /\ lastAction = Ended("handleUpdateDisplayName", "ok", FALSE)
    /\ PlayerById(CurrentPlayerId).display_name = "Ann"
    /\ profile.success = "Display name updated successfully"

(***************************************************************************)
(* C9: the routes of the protected pages                                   *)
(***************************************************************************)
\* a page component is mounted and has run its fetch
PageFetched ==
    \/ statistics # StatisticsInitial
    \/ earlierStatistics # EarlierStatisticsInitial
    \/ playersPage # PlayersPageInitial
    \/ dashboard # DashboardInitial
    \/ gamesPage # GamesPageInitial
    \/ profile # ProfileInitial

\* C9: a protected page (Dashboard, Games, Players, Statistics, Profile) is
\* rendered only when authentication loading is false and a user is present;
\* when loading is false and no user is present the route redirects to
\* /login; while loading is true neither the page nor the redirect is
\* produced.
ProtectedPagesNeedUser ==
    /\ route.path \in ProtectedPaths =>
          /\ route.element = "children" => ~auth.loading /\ auth.user # NoUser
          /\ ~auth.loading /\ auth.user = NoUser => route.element = "Navigate to /login"
          /\ auth.loading => route.element \notin {"children", "Navigate to /login"}
    /\ PageFetched =>
          /\ route.path \in ProtectedPaths /\ route.element = "children"
          /\ ~auth.loading /\ auth.user # NoUser

\* the Profile page is shown to the signed-in user
ProfileShownToUser ==
    /\ route = RouteAt("/profile", SignedIn)
    /\ auth = SignedIn
    /\ ~profile.loading

(***************************************************************************)
(* C10: failures of the backend calls                                      *)
(***************************************************************************)
\* the outcomes in which a call of the handler failed, or a value it read
\* threw
Failures ==
    {"currentPlayerError", "playersError", "gameError", "participantsError", "playerError",
     "decksError", "gamesError", "deckError", "updateError", "typeError"}

\* the error, the loading or submitting flag and the visibility of the
\* component a handler belongs to
ComponentOf(handler) ==
    CASE handler = "fetchData" ->
            [error |-> newGameModal.error, busy |-> newGameModal.loading,
             rendered |-> app.isNewGameModalOpen]
      [] handler = "handleSubmit" ->
            [error |-> newGameModal.error, busy |-> newGameModal.submitting,
             rendered |-> app.isNewGameModalOpen]
      [] handler = "NewDeckModal.handleSubmit" ->
            [error |-> newDeckModal.error, busy |-> newDeckModal.loading,
             rendered |-> app.isNewDeckModalOpen]
      [] handler = "EditDeckModal.handleSubmit" ->
            [error |-> editDeckModal.error, busy |-> editDeckModal.loading,
             rendered |-> editDeckModal.isOpen]
      [] handler = "fetchStatistics" ->
            [error |-> statistics.error, busy |-> statistics.loading,
             rendered |-> OnDisplay("statistics")]
      [] handler = "Statistics.fetchStatistics" ->
            [error |-> earlierStatistics.error, busy |-> earlierStatistics.loading,
             rendered |-> OnDisplay("earlierStatistics")]
      [] handler = "fetchPlayers" ->
            [error |-> playersPage.error, busy |-> playersPage.loading,
             rendered |-> OnDisplay("players")]
      [] handler = "fetchDecks" ->
            [error |-> dashboard.error, busy |-> dashboard.loading,
             rendered |-> OnDisplay("dashboard")]
      [] handler = "fetchGames" ->
            [error |-> gamesPage.error, busy |-> gamesPage.loading,
             rendered |-> OnDisplay("games")]
      [] handler \in {"fetchProfile", "handleUpdateDisplayName", "handleUpdatePassword"} ->
            [error |-> profile.error, busy |-> profile.loading,
             rendered |-> OnDisplay("profile")]

\* C10: for every page fetch and every form submission, a failure of any
\* backend call is caught at that call site: the component ends with a
\* non-null error string displayed and its loading/submitting flag false, and
\* no exception escapes the handler (the catch has run: no write follows the
\* failing call and no reload happens).
BackendFailuresAreShown ==
    lastAction.outcome \in Failures =>
        /\ ComponentOf(lastAction.handler).error \notin {NullText, ""}
        /\ ~ComponentOf(lastAction.handler).busy
        /\ ComponentOf(lastAction.handler).rendered
        /\ ~lastAction.reload

\* the Games page after the participants of one of its games could not be
\* fetched
GamesPageShowsParticipantsError ==
    /\ lastAction.handler = "fetchGames"
    /\ lastAction.outcome = "participantsError"
    /\ gamesPage.error = "An error occurred"
    /\ gamesPage.games = <<>>

(***************************************************************************)
(* C11: the attributes of a deck created through NewDeckModal              *)
(***************************************************************************)
\* the decks rows that NewDeckModal inserted: their format column is set
CreatedThroughNewDeckModal == {i \in 1..Len(decks) : decks[i].format # NullText}

\* the properties bag holds the format, commander and colours of the row
ReadsBack(properties, row) ==
    /\ ~properties.isNull
    /\ properties.format = row.format
    /\ properties.commander = row.commander
    /\ properties.colorIdentity =
          [white |-> row.is_white, blue |-> row.is_blue, black |-> row.is_black,
           red |-> row.is_red, green |-> row.is_green, colorless |-> row.is_colorless]

\* C11: a deck created through NewDeckModal with format f, commander c and
\* colour flags S is afterwards read by the Dashboard, EditDeckModal and
\* Statistics with properties.format = f, properties.commander = c (or null)
\* and properties.colorIdentity = S, the properties bag EditDeckModal writes.
DeckAttributesRoundTrip ==
    /\ \A i \in CreatedThroughNewDeckModal : ReadsBack(decks[i].properties, decks[i])
    /\ \A k \in 1..Len(dashboard.decks) :
          \A i \in CreatedThroughNewDeckModal :
             decks[i].id = dashboard.decks[k].id
                => ReadsBack(dashboard.decks[k].properties, decks[i])

(***************************************************************************)
(* C12: the owner of a decks row                                           *)
(***************************************************************************)
\* the positions of the calls of that name among the calls of the last handler
CallsNamed(ended, name) == {k \in 1..Len(ended.calls) : ended.calls[k].call = name}

\* C12: every decks row that NewDeckModal inserts has the player_id of the
\* players row looked up for the signed-in user, no decks insert is issued
\* unless that lookup succeeded, and an EditDeckModal update (like every other
\* step) leaves the player_id of every decks row as it was.
DeckOwnerIsThePlayerLookedUp ==
    [][/\ Len(decks') >= Len(decks)
       /\ \A i \in 1..Len(decks) : decks'[i].player_id = decks[i].player_id
       /\ \A i \in (Len(decks) + 1)..Len(decks') :
             /\ auth.user = CurrentUser
             /\ decks'[i].player_id = PlayerRow(CurrentPlayerId).id
             /\ lastAction'.handler = "NewDeckModal.handleSubmit"
             /\ \E k \in CallsNamed(lastAction', "decks.insert") :
                   ~lastAction'.calls[k].failed
       /\ \A k \in CallsNamed(lastAction', "decks.insert") :
             /\ k > 1
             /\ lastAction'.calls[k - 1].call = "players.select"
             /\ ~lastAction'.calls[k - 1].failed]_vars

\* a deck was created through NewDeckModal and then another was saved in
\* EditDeckModal
DeckCreatedThenDeckEdited ==
    /\ CreatedThroughNewDeckModal # {}
    /\ lastAction.handler = "EditDeckModal.handleSubmit"
    /\ lastAction.outcome = "ok"

(***************************************************************************)
(* Specification SpecLists: the Dashboard, the Games page, the Statistics  *)
(* pages and the Players page over stores of three players that differ in  *)
(* who played which game                                                   *)
(***************************************************************************)
\* bound: the games of a store
ListGames == 3

\* the rows one New Game submission leaves: two or three players with a deck
\* of their own and one winner, or no row when the second insert failed
LineUps ==
    <<  <<[player_id |-> CurrentPlayerId, deck_id |-> 1, won |-> TRUE],
          [player_id |-> OpponentId, deck_id |-> 3, won |-> FALSE]>>,
        <<[player_id |-> CurrentPlayerId, deck_id |-> 2, won |-> FALSE],
          [player_id |-> OpponentId + 1, deck_id |-> 4, won |-> TRUE]>>,
        <<[player_id |-> OpponentId, deck_id |-> 3, won |-> TRUE],
          [player_id |-> OpponentId + 1, deck_id |-> 4, won |-> FALSE]>>,
        <<[player_id |-> CurrentPlayerId, deck_id |-> 2, won |-> TRUE],
          [player_id |-> OpponentId, deck_id |-> 3, won |-> FALSE],
          [player_id |-> OpponentId + 1, deck_id |-> 4, won |-> FALSE]>>,
        <<>>  >>

\* games 1 and 2 are played at the same time, game 3 a day earlier, ...
ListPlayedAt(i) == Now - ((i + 1) \div 2) * DayLen

RECURSIVE LineUpRows(_, _)
\* the game_participants rows of the games 1..m
LineUpRows(lineUpOf, m) ==
    IF m = 0 THEN <<>>
    ELSE LineUpRows(lineUpOf, m - 1) \o
         [k \in 1..Len(LineUps[lineUpOf[m]]) |->
             [game_id |-> m,
              player_id |-> LineUps[lineUpOf[m]][k].player_id,
              deck_id |-> LineUps[lineUpOf[m]][k].deck_id,
              won |-> LineUps[lineUpOf[m]][k].won,
              created_at |-> ListPlayedAt(m)]]

InitLists ==
    /\ WinRateIdle /\ lastAction = Idle
    /\ \E path \in {"/", "/games", "/statistics", "/players"} : UiAt(path)
    /\ password = InitialPassword /\ writes = 0
    /\ players = PlayersTable(OpponentId + 1)
    /\ \E firstInactive \in BOOLEAN :
          decks = <<DeckRow(1, CurrentPlayerId, DeckNames[1], firstInactive),
                    DeckRow(2, CurrentPlayerId, DeckNames[2], FALSE),
                    DeckRow(3, OpponentId, DeckNames[3], FALSE),
                    DeckRow(4, OpponentId + 1, DeckNames[4], FALSE)>>
    /\ \E m \in 0..ListGames : \E lineUpOf \in [1..m -> 1..Len(LineUps)] :
          /\ games = [i \in 1..m |->
                        [id |-> i, played_at |-> ListPlayedAt(i), location |-> NullText]]
          /\ game_participants = LineUpRows(lineUpOf, m)

NextLists ==
    \/ NextStatistics
    \/ \E outcome \in EarlierOutcomes : \E err \in ErrorsOf(outcome) :
          MountEarlierStatistics(outcome, err)
    \/ \E outcome \in FetchPlayersOutcomes : \E err \in ErrorsOf(outcome) :
          fetchPlayers(outcome, err)
    \/ \E outcome \in FetchDecksOutcomes : \E err \in ErrorsOf(outcome) :
          \E order \in FanOutRows(outcome, "gamesError", DecksByName) :
             \E failed \in FanOutFailures(outcome, "gamesError", order) :
                fetchDecks(outcome, err, order, failed)
    \/ \E outcome \in FetchGamesOutcomes : \E err \in ErrorsOf(outcome) :
          \E order \in FanOutRows(outcome, "participantsError", GamesByPlayedAt) :
             \E failed \in FanOutFailures(outcome, "participantsError", order) :
                fetchGames(outcome, err, order, failed)

SpecLists == InitLists /\ [][NextLists]_vars

(***************************************************************************)
(* C13: the range of the win rates                                         *)
(***************************************************************************)
IsPercentage(winRate) == winRate \in 0..100

\* C13: every win rate the pages hold (overall, of the most played and the
\* least played deck, of a deck with zero games, of a player, of a deck card)
\* is an integer between 0 and 100; no 0 / 0 is ever computed into one.
WinRatesArePercentages ==
    /\ IsPercentage(statistics.stats.winRate)
    /\ IsPercentage(statistics.stats.mostPlayedDeck.winRate)
    /\ IsPercentage(statistics.stats.leastPlayedDeck.winRate)
    /\ IsPercentage(earlierStatistics.stats.winRate)
    /\ IsPercentage(earlierStatistics.stats.mostPlayedDeck.winRate)
    /\ IsPercentage(earlierStatistics.stats.leastPlayedDeck.winRate)
    /\ \A i \in 1..Len(playersPage.players) : IsPercentage(playersPage.players[i].winRate)
    /\ \A k \in 1..Len(dashboard.decks) : IsPercentage(dashboard.decks[k].winRate)

\* the Statistics page shows a least played deck with zero games beside a
\* most played deck that won some of its games and lost others
UnplayedDeckBesideMixedDeck ==
    /\ ~statistics.loading /\ statistics.error = NullText
    /\ statistics.stats.leastPlayedDeck # NullDeck
    /\ statistics.stats.leastPlayedDeck.gamesPlayed = 0
    /\ statistics.stats.mostPlayedDeck.winRate \notin {0, 100}

(***************************************************************************)
(* C14: the order of the calls of a New Game submission                    *)
(***************************************************************************)
\* C14: in a New Game submission the games insert is the first call; the
\* game_participants insert is the second, issued only when the games insert
\* came back without an error, and every row of it carries the id of the game
\* just inserted; a call that fails is the last call of the submission.
SubmissionCallsInOrder ==
    [][lastAction'.handler = "handleSubmit" =>
          LET calls == lastAction'.calls
              added == (Len(game_participants) + 1)..Len(game_participants')
          IN  /\ \A k \in 1..Len(calls) : calls[k].failed => k = Len(calls)
              /\ \A k \in CallsNamed(lastAction', "games.insert") : k = 1
              /\ (Len(games') = Len(games) + 1) = (calls # <<>> /\ ~calls[1].failed)
              /\ calls = <<>> \/ calls[1].failed => games' = games
              /\ \A k \in CallsNamed(lastAction', "game_participants.insert") :
                    /\ k = 2
                    /\ calls[1].call = "games.insert" /\ ~calls[1].failed
                    /\ calls[k].ids = {games'[Len(games')].id}
              /\ (added # {}) =
                    (CallsNamed(lastAction', "game_participants.insert") # {}
                        /\ \A k \in 1..Len(calls) : ~calls[k].failed)
              /\ \A i \in added : game_participants'[i].game_id = games'[Len(games')].id
              /\ \A i \in 1..Len(game_participants) :
                    game_participants'[i] = game_participants[i]]_vars

\* a submission whose two inserts succeeded
BothInsertsSucceeded ==
    /\ lastAction.handler = "handleSubmit"
    /\ lastAction.outcome = "ok"
    /\ Len(lastAction.calls) = 2
    /\ \E k \in 1..Len(game_participants) :
          game_participants[k].game_id = games[Len(games)].id

(***************************************************************************)
(* C15: the fan-out fetches                                                *)
(***************************************************************************)
\* the calls of the last handler that were made one for each row
FannedOutCalls == CallsNamed(lastAction, "game_participants.select")

\* the list holds one entry for each of the rows and no other
OneEntryPerRow(list, rows) ==
    /\ Len(list) = Len(rows)
    /\ \A i \in 1..Len(rows) :
          Cardinality({k \in 1..Len(list) : list[k].id = rows[i].id}) = 1

\* the page of a fan-out fetch is left with no entry and an error, or with
\* one entry for each row
AllOrNothing(page, list, rows) ==
    /\ (\E k \in FannedOutCalls : lastAction.calls[k].failed)
          => list = <<>> /\ page.error # NullText /\ ~page.loading
    /\ lastAction.outcome = "ok"
          => OneEntryPerRow(list, rows) /\ page.error = NullText /\ ~page.loading
    /\ list = <<>> \/ OneEntryPerRow(list, rows)

\* C15: on the Dashboard (one call for each deck) and on the Games page (one
\* call for each game) the fetch is all or nothing: when any of these calls
\* fails, whichever and however many, the list stays empty and an error is
\* shown; when none fails the list holds one entry for each deck or game.
FanOutIsAllOrNothing ==
    /\ lastAction.handler = "fetchDecks" => AllOrNothing(dashboard, dashboard.decks, OwnDeckRows)
    /\ lastAction.handler = "fetchGames" => AllOrNothing(gamesPage, gamesPage.games, OwnGameRows)

\* of the calls made for the games one failed and another did not
OneGameCallFailedAnotherDidNot ==
    /\ lastAction.handler = "fetchGames"
    /\ \E j, k \in FannedOutCalls :
          lastAction.calls[j].failed /\ ~lastAction.calls[k].failed

(***************************************************************************)
(* C16: the inactive filter of the Statistics page                         *)
(***************************************************************************)
\* the participations of the signed-in player the page considers: all when
\* inactive decks are included, else those played with a deck not flagged
ConsideredParticipations ==
    {k \in 1..Len(game_participants) :
        /\ game_participants[k].player_id = CurrentPlayerId
        /\ \/ statistics.includeInactive
           \/ ~DeckById(game_participants[k].deck_id).properties.inactive}

ConsideredGames == {game_participants[k].game_id : k \in ConsideredParticipations}

ConsideredWith(deckId) ==
    {k \in ConsideredParticipations : game_participants[k].deck_id = deckId}

\* the summary is of a deck considered, with its considered participations
SummaryOfConsideredDeck(summary) ==
    IF ConsideredDecks = {} THEN summary = NullDeck
    ELSE \E i \in ConsideredDecks :
            /\ summary.name = decks[i].name
            /\ summary.gamesPlayed = Cardinality(ConsideredWith(decks[i].id))

\* the usernames the page counts in the games considered
CountedIn(gameIds) ==
    {PlayerById(game_participants[k].player_id).username :
        k \in {j \in 1..Len(game_participants) :
                  /\ game_participants[j].game_id \in gameIds
                  /\ PlayerById(game_participants[j].player_id).username
                        # PlayerIdOnly.username}}

OthersIn(gameIds) ==
    {game_participants[k].player_id :
        k \in {j \in 1..Len(game_participants) :
                  /\ game_participants[j].game_id \in gameIds
                  /\ game_participants[j].player_id # CurrentPlayerId}}

GamesTakenPartIn ==
    {game_participants[k].game_id :
        k \in {j \in 1..Len(game_participants) :
                  game_participants[j].player_id = CurrentPlayerId}}

\* C17: Players Faced is the number of distinct players, other than the
\* current player, who took part in at least one game the current player
\* took part in (with a deck the page considers); the current player is
\* never counted.
PlayersFacedAreTheOthers ==
    /\ StatisticsShown =>
          statistics.stats.totalPlayers = Cardinality(OthersIn(ConsideredGames))
    /\ EarlierShown =>
          earlierStatistics.stats.totalPlayers = Cardinality(OthersIn(GamesTakenPartIn))

(***************************************************************************)
(* Specification SpecRecent: the Statistics pages over stores with more    *)
(* games than the recent-games list holds, played on two days            *)
(***************************************************************************)
\* bound: the games of a store
RecentRows == 7

RecentDaysBack == {1, 2}

\* game 2 is played by the two other players, every other game by the
\* signed-in player against the opponent; the winners alternate
InitRecent ==
    /\ WinRateIdle /\ lastAction = Idle /\ UiAt("/statistics")
    /\ password = InitialPassword /\ writes = 0
    /\ players = PlayersTable(OpponentId + 1)
    /\ decks = <<DeckRow(1, CurrentPlayerId, DeckNames[1], FALSE),
                 DeckRow(2, OpponentId, DeckNames[2], FALSE),
                 DeckRow(3, OpponentId + 1, DeckNames[3], FALSE)>>
    /\ \E m \in 0..RecentRows : \E daysBack \in [1..m -> RecentDaysBack] :
          /\ games = [i \in 1..m |->
                        [id |-> i, played_at |-> Now - daysBack[i] * DayLen,
                         location |-> NullText]]
          /\ game_participants =
                [k \in 1..(2 * m) |->
                    LET i == (k + 1) \div 2
                        first == IF i = 2 THEN OpponentId + 1 ELSE CurrentPlayerId
                    IN  IF k % 2 = 1
                        THEN [game_id |-> i, player_id |-> first,
                              deck_id |-> IF i = 2 THEN 3 ELSE 1, won |-> i % 2 = 1,
                              created_at |-> Now - daysBack[i] * DayLen]
                        ELSE [game_id |-> i, player_id |-> OpponentId, deck_id |-> 2,
                              won |-> i % 2 = 0,
                              created_at |-> Now - daysBack[i] * DayLen]]

NextRecent ==
    \/ NextStatistics
    \/ \E outcome \in EarlierOutcomes : \E err \in ErrorsOf(outcome) :
          MountEarlierStatistics(outcome, err)

SpecRecent == InitRecent /\ [][NextRecent]_vars

(***************************************************************************)
(* C18: the recent games                                                   *)
(***************************************************************************)
\* the entry names a participant of its game whose won flag is set, or
\* nobody when the game has no such participant
WinnerIsAWinningParticipant(entry) ==
    LET winning == {k \in 1..Len(game_participants) :
                       /\ game_participants[k].game_id = entry.id
                       /\ game_participants[k].won}
    IN  IF winning = {} THEN entry.winner = NullWinner
        ELSE \E k \in winning :
                entry.winner =
                   [username |-> PlayerById(game_participants[k].player_id).username,
                    display_name |->
                       PlayerById(game_participants[k].player_id).display_name]

\* the list holds the latest of the games, newest first, at most five
LatestOf(list, gameIds) ==
    /\ Len(list) <= RecentGamesLimit
    /\ Len(list) = RecentGamesLimit \/ Len(list) = Cardinality(gameIds)
    /\ \A e \in 1..Len(list) :
          /\ list[e].id \in gameIds
          /\ list[e].played_at = GameById(list[e].id).played_at
          /\ WinnerIsAWinningParticipant(list[e])
          /\ \A f \in 1..Len(list) :
                /\ e < f => list[e].played_at >= list[f].played_at
                /\ e # f => list[e].id # list[f].id
          /\ \A g \in gameIds :
                (\A f \in 1..Len(list) : list[f].id # g)
                   => GameById(g).played_at <= list[e].played_at

GamesShown == ~gamesPage.loading /\ gamesPage.error = NullText

RowsOfGame(gameId) ==
    {k \in 1..Len(game_participants) : game_participants[k].game_id = gameId}

\* the listed game carries a participant for every row of the game
CarriesAllRows(game) ==
    /\ Len(game.game_participants) = Cardinality(RowsOfGame(game.id))
    /\ \A k \in RowsOfGame(game.id) :
          \E j \in 1..Len(game.game_participants) :
             /\ game.game_participants[j].won = game_participants[k].won
             /\ game.game_participants[j].player.username =
                   PlayerById(game_participants[k].player_id).username
             /\ game.game_participants[j].deck.name =
                   DeckById(game_participants[k].deck_id).name

\* C19: after a successful load the Games page lists exactly the games the
\* current player is a participant of, in descending played_at order, and
\* every listed game carries all participant rows of that game.
GamesPageListsOwnGames ==
    GamesShown =>
       /\ {gamesPage.games[e].id : e \in 1..Len(gamesPage.games)} = GamesTakenPartIn
       /\ Len(gamesPage.games) = Cardinality(GamesTakenPartIn)
       /\ \A e \in 1..Len(gamesPage.games) :
             /\ gamesPage.games[e].played_at = GameById(gamesPage.games[e].id).played_at
             /\ CarriesAllRows(gamesPage.games[e])
             /\ \A f \in 1..Len(gamesPage.games) :
                   e < f => gamesPage.games[e].played_at >= gamesPage.games[f].played_at

\* the page lists two games played at different times, one of them with
\* three participants, and leaves out a game of the other players
TwoOwnGamesListedOneForeignLeftOut ==
    /\ GamesShown
    /\ Len(gamesPage.games) = 2
    /\ gamesPage.games[1].played_at > gamesPage.games[2].played_at
    /\ \E e \in 1..2 : Len(gamesPage.games[e].game_participants) = 3
    /\ \E g \in 1..Len(games) :
          games[g].id \notin GamesTakenPartIn /\ RowsOfGame(games[g].id) # {}

NextColors ==
    \/ \E deckId \in EditableDeckIds : openEditDeckModal(deckId)
    \/ closeEditDeckModal
    \/ \E color \in Colors : EditDeckColorChange(color)
    \/ openNewDeckModal(FALSE)
    \/ closeNewDeckModal
    \/ \E color \in Colors : NewDeckColorChange(color)
    \/ \E outcome \in UpdateOutcomes : \E err \in ErrorsOf(outcome) :
          writes < MaxWrites /\ EditDeckSubmit(outcome, err)

SpecColors == InitApp /\ [][NextColors]_vars

(***************************************************************************)
(* C21: colorless excludes the five colours                                *)
(***************************************************************************)
Exclusive(colors) == ~(colors.colorless /\ \E c \in Colors \ {"colorless"} : colors[c])

\* C21: from the all-false colours of NewDeckModal, after any sequence of
\* handleColorChange calls colorless is never set together with white, blue,
\* black, red or green; in EditDeckModal the same holds once
\* handleColorChange was called.
ColorlessExcludesColors ==
    [][/\ Exclusive(newDeckModal'.colors)
       /\ (editDeckModal.isOpen /\ editDeckModal'.isOpen
             /\ editDeckModal'.colors # editDeckModal.colors)
          => Exclusive(editDeckModal'.colors)]_vars

\* colorless was chosen in NewDeckModal after colours had been chosen and
\* taken back, and EditDeckModal shows a deck saved as colorless
ColorlessChosenInBothModals ==
    /\ newDeckModal.colors = [NoColors EXCEPT !.colorless = TRUE]
    /\ editDeckModal.isOpen
    /\ editDeckModal.colors = [NoColors EXCEPT !.blue = TRUE, !.red = TRUE]
    /\ DeckById(editDeckModal.deckId).properties.colorIdentity.colorless

(***************************************************************************)
(* Specification SpecForm: the New Game form over three players with two   *)
(* decks each                                                              *)
(***************************************************************************)
InitForm ==
    /\ WinRateIdle /\ UiInitial /\ lastAction = Idle
    /\ players = PlayersTable(OpponentId + 1)
    /\ decks = [i \in 1..(2 * (OpponentId + 1)) |->
                  DeckRow(i, (i + 1) \div 2, DeckNames[i], FALSE)]
    /\ games = <<>>
    /\ game_participants = <<>>
    /\ password = InitialPassword /\ writes = 0

SpecForm == InitForm /\ [][NextGame]_vars

(***************************************************************************)
(* C22: one winner in the form                                             *)
(***************************************************************************)
WinnersIn(participants) == {i \in 1..Len(participants) : participants[i].won}

WasParticipant(playerId) ==
    \E j \in 1..Len(newGameModal.participants) :
       newGameModal.participants[j].playerId = playerId

\* C22: in the New Game form at most one participant has won = true after
\* any sequence of add-player, remove-player, deck-change and
\* win-state-change operations; a participant just added has won = false, and
\* marking a participant as winner clears the flag of every other.
AtMostOneWinnerInForm ==
    [][LET before == newGameModal.participants
           after  == newGameModal'.participants
       IN  /\ Cardinality(WinnersIn(after)) <= 1
           /\ \A i \in 1..Len(after) :
                 ~WasParticipant(after[i].playerId) => ~after[i].won
           /\ \A i \in WinnersIn(after) :
                 (\E j \in 1..Len(before) :
                     before[j].playerId = after[i].playerId /\ ~before[j].won)
                    => \A k \in 1..Len(after) : k # i => ~after[k].won]_vars

\* the third participant is marked as winner
ThirdParticipantWins ==
    /\ FormRendered
    /\ Len(newGameModal.participants) = 3
    /\ WinnersIn(newGameModal.participants) = {3}

(***************************************************************************)
(* C23: a player is a participant once                                     *)
(***************************************************************************)
\* C23: in the New Game form no player id occurs twice in the participants
\* list after any sequence of add-player, remove-player, deck-change and
\* win-state-change operations, so no submission writes two
\* game_participants rows of one player for one game.
NoPlayerTwiceInAGame ==
    /\ \A i, j \in 1..Len(newGameModal.participants) :
          newGameModal.participants[i].playerId = newGameModal.participants[j].playerId
             => i = j
    /\ \A i, j \in 1..Len(game_participants) :
          (/\ game_participants[i].game_id = game_participants[j].game_id
           /\ game_participants[i].player_id = game_participants[j].player_id)
             => i = j

\* a game of all three players was submitted
ThreePlayersSubmitted ==
    /\ lastAction.handler = "handleSubmit" /\ lastAction.outcome = "ok"
    /\ Cardinality({game_participants[k].player_id : k \in 1..Len(game_participants)}) = 3

(***************************************************************************)
(* C24: a participant plays a deck of their own                            *)
(***************************************************************************)
\* C24: in the New Game form every participant's deckId is a deck of that
\* participant's player, for the initial entry and after add-player and
\* deck-change, so every submitted game_participants row pairs a player with
\* one of that player's own decks.
ParticipantsPlayOwnDecks ==
    /\ \A i \in 1..Len(newGameModal.participants) :
          newGameModal.participants[i].deckId
             \in SeqRange(DecksOf(newGameModal.participants[i].playerId))
    /\ \A k \in 1..Len(game_participants) :
          DeckById(game_participants[k].deck_id).player_id = game_participants[k].player_id

\* the modal was opened for the first deck, the current player changed to the
\* second, and so did an added player
DecksChangedToSecondDeck ==
    /\ FormRendered
    /\ app.selectedDeckId = DecksOf(CurrentPlayerId)[1]
    /\ Len(newGameModal.participants) = 2
    /\ \A i \in 1..2 :
          newGameModal.participants[i].deckId =
             DecksOf(newGameModal.participants[i].playerId)[2]

====
